---- MODULE Spec2Model ----
(***************************************************************************)
(* Model of the psy-automation pipeline: the field validators and the      *)
(* record reconciler of stage4_validation.py (DataValidator and            *)
(* DataFormatter.format_data_for_excel) and the fetcher of                  *)
(* stage2_web_scraping.py (WebScraper.fetch_url).                           *)
(*                                                                         *)
(* Python strings are sequences of one-character strings, so that strip,   *)
(* lower, upper and the regular expressions are computed and not assumed.  *)
(* Table positions are 1-based here (pandas labels are 0-based).           *)
(***************************************************************************)
EXTENDS Integers, Sequences, FiniteSets, TLC

VARIABLES
    df,              \* format_data_for_excel: the table handed in (never written)
    extracted_data,  \* format_data_for_excel: practice name -> oracle answer
    rowIsView,       \* whether iterrows() hands out views of updated_df or copies
    updated_df,      \* format_data_for_excel: the working copy of the table
    new_rows,        \* format_data_for_excel: the expansion rows, in append order
    discrepancies,   \* format_data_for_excel: (idx, message) pairs, in append order
    pc,              \* position inside format_data_for_excel
    idx,             \* the row the "for idx, row in iterrows()" loop handles next
    url,             \* fetch_url: [scheme, netloc] of the URL argument
    fpc,             \* position inside fetch_url
    retries,         \* fetch_url: the local counter
    trace,           \* fetch_url: the GETs issued and the sleeps taken, in order
    result,          \* fetch_url: the returned (success, content) pair
    crow,            \* scrape_clinic: idx, the row's cells and save_to_file
    cpage,           \* scrape_clinic: the main page the site serves
    cpc,             \* position inside scrape_clinic
    website_url,     \* scrape_clinic: the cleaned website address
    cresult,         \* scrape_clinic: the local result dict
    creturned,       \* scrape_clinic: the dict it returned
    doctor_pages,    \* scrape_clinic: the candidate subpages, in page order
    ci,              \* scrape_clinic: position of the loop over doctor_pages
    scraped_pages,   \* scrape_clinic: the set of pages already scraped
    ctrace,          \* scrape_clinic: the fetch_url calls and delays, in order
    cfiles,          \* scrape_clinic: the files under output_dir
    self_df,         \* scrape_all_clinics: self.df, when loaded
    green_rows,      \* scrape_all_clinics: self.green_rows, when loaded
    max_workers,     \* scrape_all_clinics: the size of the worker pool
    batch_size,      \* scrape_all_clinics: the number of rows per batch
    bpc,             \* position inside scrape_all_clinics
    bi,              \* scrape_all_clinics: the loop variable i
    futures,         \* scrape_all_clinics: the crawls submitted for the batch
    batch_results,   \* scrape_all_clinics: row index -> result, for the batch
    all_results,     \* scrape_all_clinics: row index -> result, merged
    session,         \* self.session: the crawls that sent requests through it
    bfiles,          \* the files under output_dir the crawls of the batches wrote
    sleep_time,      \* scrape_all_clinics: the last pause taken
    breturned,       \* scrape_all_clinics: the dict it returned
    vfn,             \* the validator of DataValidator that is called
    vin,             \* its argument
    vout,            \* the (valid, value) pair it returned
    vpc,             \* before ("call") or after ("done") the call, or after the
                     \* call on the value it returned ("again")
    vagain           \* the pair returned for the value of the first call

rvars == <<df, extracted_data, rowIsView, updated_df, new_rows, discrepancies, pc, idx>>
fvars == <<url, fpc, retries, trace, result>>
cvars == <<crow, cpage, cpc, website_url, cresult, creturned, doctor_pages, ci,
           scraped_pages, ctrace, cfiles>>
bvars == <<self_df, green_rows, max_workers, batch_size, bpc, bi, futures, batch_results,
           all_results, session, bfiles, sleep_time, breturned>>
vvars == <<vfn, vin, vout, vpc, vagain>>
vars == <<df, extracted_data, rowIsView, updated_df, new_rows, discrepancies, pc, idx,
          url, fpc, retries, trace, result,
          crow, cpage, cpc, website_url, cresult, creturned, doctor_pages, ci,
          scraped_pages, ctrace, cfiles,
          self_df, green_rows, max_workers, batch_size, bpc, bi, futures, batch_results,
          all_results, session, bfiles, sleep_time, breturned,
          vfn, vin, vout, vpc, vagain>>

(***************************************************************************)
(* Bounds of the model.                                                    *)
(***************************************************************************)
NumRows == 2
MaxStaff == 3

(***************************************************************************)
(* Python values and string primitives.                                    *)
(***************************************************************************)
\* float('nan'), what pandas.read_excel gives for an empty cell; not a string
NaN == <<"NaN">>
\* the empty string
Empty == <<>>
None == <<"None">>

Digits == {"0", "1", "2", "3", "4", "5", "6", "7", "8", "9"}
LowerLetters == <<"a", "b", "c", "d", "e", "f", "g", "h", "i", "j", "k", "l", "m",
                  "n", "o", "p", "q", "r", "s", "t", "u", "v", "w", "x", "y", "z">>
UpperLetters == <<"A", "B", "C", "D", "E", "F", "G", "H", "I", "J", "K", "L", "M",
                  "N", "O", "P", "Q", "R", "S", "T", "U", "V", "W", "X", "Y", "Z">>
Letters == {LowerLetters[i] : i \in 1..26} \cup {UpperLetters[i] : i \in 1..26}

SetMin(S) == CHOOSE x \in S : \A y \in S : x <= y
SetMax(S) == CHOOSE x \in S : \A y \in S : x >= y

\* isinstance(v, str)
IsStr(v) == v # NaN /\ v # None
\* bool(v): the empty string and None are falsy, NaN is truthy
Truthy(v) == v # Empty /\ v # None
\* str(v)
Str(v) == IF v = NaN THEN <<"n", "a", "n">>
          ELSE IF v = None THEN <<"N", "o", "n", "e">> ELSE v
\* pandas.notna(v)
notna(v) == v # NaN /\ v # None

\* str.strip()
strip(s) ==
    LET keep == {i \in 1..Len(s) : s[i] # " "}
    IN  IF keep = {} THEN <<>> ELSE SubSeq(s, SetMin(keep), SetMax(keep))

lowerChar(c) ==
    IF \E i \in 1..26 : UpperLetters[i] = c
    THEN LowerLetters[CHOOSE i \in 1..26 : UpperLetters[i] = c] ELSE c
upperChar(c) ==
    IF \E i \in 1..26 : LowerLetters[i] = c
    THEN UpperLetters[CHOOSE i \in 1..26 : LowerLetters[i] = c] ELSE c
\* str.lower(), str.upper()
lower(s) == [i \in 1..Len(s) |-> lowerChar(s[i])]
upper(s) == [i \in 1..Len(s) |-> upperChar(s[i])]

\* str.startswith(prefix)
startswith(s, prefix) ==
    Len(s) >= Len(prefix) /\ SubSeq(s, 1, Len(prefix)) = prefix
\* sub in s
contains(s, sub) ==
    \E i \in 1..(Len(s) - Len(sub) + 1) : SubSeq(s, i, i + Len(sub) - 1) = sub
AllIn(s, from, to, class) == \A k \in from..to : s[k] \in class

\* ''.join(filter(str.isdigit, s))
RECURSIVE digits_only(_)
digits_only(s) ==
    IF s = <<>> THEN <<>>
    ELSE IF Head(s) \in Digits THEN <<Head(s)>> \o digits_only(Tail(s))
    ELSE digits_only(Tail(s))

(***************************************************************************)
(* DataValidator.  Every validator returns [valid, value].                 *)
(***************************************************************************)
EmailLocalChars == Letters \cup Digits \cup {".", "_", "%", "+", "-"}
HostChars == Letters \cup Digits \cup {".", "-"}

\* re.match(self.email_pattern, s):
\*   ^[a-zA-Z0-9._%+-]+@[a-zA-Z0-9.-]+\.[a-zA-Z]{2,}$
email_pattern(s) ==
    \E at \in 2..Len(s), dot \in 3..Len(s) :
        /\ s[at] = "@"
        /\ AllIn(s, 1, at - 1, EmailLocalChars)
        /\ dot > at + 1
        /\ s[dot] = "."
        /\ AllIn(s, at + 1, dot - 1, HostChars)
        /\ Len(s) - dot >= 2
        /\ AllIn(s, dot + 1, Len(s), Letters)

HttpPrefix == <<"h", "t", "t", "p", ":", "/", "/">>
HttpsPrefix == <<"h", "t", "t", "p", "s", ":", "/", "/">>

\* re.match(self.url_pattern, s):
\*   ^(http|https)://[a-zA-Z0-9.-]+\.[a-zA-Z]{2,}(/.*)?$
url_pattern(s) ==
    \E pre \in {HttpPrefix, HttpsPrefix} :
        /\ startswith(s, pre)
        /\ \E dot \in (Len(pre) + 2)..Len(s), end \in (Len(pre) + 4)..Len(s) :
            /\ s[dot] = "."
            /\ AllIn(s, Len(pre) + 1, dot - 1, HostChars)
            /\ end - dot >= 2
            /\ AllIn(s, dot + 1, end, Letters)
            /\ (end = Len(s) \/ s[end + 1] = "/")

validate_email(email) ==
    IF ~Truthy(email) \/ ~IsStr(email) THEN [valid |-> FALSE, value |-> Empty]
    ELSE LET e == lower(strip(email))
         IN  [valid |-> email_pattern(e), value |-> e]

validate_url(u) ==
    IF ~Truthy(u) \/ ~IsStr(u) THEN [valid |-> FALSE, value |-> Empty]
    ELSE LET s == strip(u)
             w == IF startswith(s, HttpPrefix) \/ startswith(s, HttpsPrefix)
                  THEN s ELSE HttpPrefix \o s
         IN  [valid |-> url_pattern(w), value |-> w]

\* re.search(r'\$?(\d+(?:\.\d{2})?)', price).group(1): the leftmost match starts at
\* the first digit (or at a "$" right before it); \d+ takes the whole digit run and
\* the fraction is taken when "." and two digits follow
price_group(price) ==
    LET ds    == {i \in 1..Len(price) : price[i] \in Digits}
        first == SetMin(ds)
        stops == {i \in first..Len(price) : price[i] \notin Digits}
        last  == IF stops = {} THEN Len(price) ELSE SetMin(stops) - 1
        frac  == /\ last + 3 <= Len(price)
                 /\ price[last + 1] = "."
                 /\ price[last + 2] \in Digits
                 /\ price[last + 3] \in Digits
    IN  SubSeq(price, first, IF frac THEN last + 3 ELSE last)

validate_price(price) ==
    IF ~Truthy(price) \/ ~IsStr(price) THEN [valid |-> FALSE, value |-> Empty]
    ELSE IF \E i \in 1..Len(price) : price[i] \in Digits
         THEN [valid |-> TRUE, value |-> price_group(price)]
         ELSE [valid |-> FALSE, value |-> price]

CLINICAL == <<"C", "L", "I", "N", "I", "C", "A", "L">>
GENERAL == <<"G", "E", "N", "E", "R", "A", "L">>

\* a variant of validate_psychologist_type that knows the words only, not the
\* letters C and G
validate_psychologist_type_WordsOnly(psych_type) ==
    IF ~Truthy(psych_type) \/ ~IsStr(psych_type) THEN [valid |-> FALSE, value |-> Empty]
    ELSE LET t == upper(strip(psych_type))
         IN  IF contains(t, CLINICAL) THEN [valid |-> TRUE, value |-> <<"C">>]
             ELSE IF contains(t, GENERAL) THEN [valid |-> TRUE, value |-> <<"G">>]
             ELSE [valid |-> FALSE, value |-> Empty]

validate_psychologist_type(psych_type) ==
    IF ~Truthy(psych_type) \/ ~IsStr(psych_type) THEN [valid |-> FALSE, value |-> Empty]
    ELSE LET t == upper(strip(psych_type))
         IN  IF t \in {<<"C">>, <<"G">>} THEN [valid |-> TRUE, value |-> t]
             ELSE IF startswith(t, <<"C">>) \/ contains(t, CLINICAL)
                  THEN [valid |-> TRUE, value |-> <<"C">>]
             ELSE IF startswith(t, <<"G">>) \/ contains(t, GENERAL)
                  THEN [valid |-> TRUE, value |-> <<"G">>]
             ELSE [valid |-> FALSE, value |-> Empty]

\* the digit string d left as it is
phone_format_Ungrouped(d) == d

\* the format table of validate_phone, applied to the digit string d
phone_format(d) ==
    IF Len(d) = 10 /\ startswith(d, <<"0", "4">>)
    THEN <<"0">> \o SubSeq(d, 2, 4) \o <<" ">> \o SubSeq(d, 5, 7) \o <<" ">> \o SubSeq(d, 8, 10)
    ELSE IF Len(d) = 10 /\ (\/ startswith(d, <<"0", "2">>) \/ startswith(d, <<"0", "3">>)
                            \/ startswith(d, <<"0", "7">>) \/ startswith(d, <<"0", "8">>))
    THEN <<"(">> \o SubSeq(d, 1, 2) \o <<")", " ">> \o SubSeq(d, 3, 6) \o <<" ">> \o SubSeq(d, 7, 10)
    ELSE IF \/ (Len(d) = 10 /\ startswith(d, <<"1", "3", "0", "0">>))
            \/ startswith(d, <<"1", "8", "0", "0">>)
    THEN SubSeq(d, 1, 4) \o <<" ">> \o SubSeq(d, 5, 7) \o <<" ">>
             \o SubSeq(d, 8, IF Len(d) < 10 THEN Len(d) ELSE 10)
    ELSE IF Len(d) = 8 THEN SubSeq(d, 1, 4) \o <<" ">> \o SubSeq(d, 5, 8)
    ELSE IF Len(d) = 9 THEN SubSeq(d, 1, 3) \o <<" ">> \o SubSeq(d, 4, 6) \o <<" ">> \o SubSeq(d, 7, 9)
    ELSE d

\* a variant of validate_phone that writes a number with the country code in
\* front of it
validate_phone_International(phone) ==
    IF ~Truthy(phone) \/ ~IsStr(phone) THEN [valid |-> FALSE, value |-> Empty]
    ELSE LET d0 == digits_only(phone)
             d  == IF Len(d0) = 9 /\ d0[1] = "4" THEN <<"0">> \o d0 ELSE d0
         IN  IF Len(d) >= 8 /\ Len(d) <= 12
             THEN [valid |-> TRUE, value |-> <<"+", "6", "1", " ">> \o phone_format(d)]
             ELSE [valid |-> FALSE, value |-> phone]

validate_phone(phone) ==
    IF ~Truthy(phone) \/ ~IsStr(phone) THEN [valid |-> FALSE, value |-> Empty]
    ELSE LET d0 == digits_only(phone)
             d  == IF Len(d0) = 9 /\ d0[1] = "4" THEN <<"0">> \o d0 ELSE d0
         IN  IF Len(d) >= 8 /\ Len(d) <= 12
             THEN [valid |-> TRUE, value |-> phone_format(d)]
             ELSE [valid |-> FALSE, value |-> phone]

WordChars == Letters \cup Digits \cup {"_"}
\* the class [\w\s] of the address patterns
WordOrSpace == WordChars \cup {" "}
UpperSet == {UpperLetters[i] : i \in 1..26}

\* the end of the run of characters of class that starts at position i of s
\* (i - 1 when s[i] is not of the class)
RunEnd(s, i, class) ==
    LET stops == {k \in i..Len(s) : s[k] \notin class}
    IN  IF stops = {} THEN Len(s) ELSE SetMin(stops) - 1

\* re.match(unit_pattern, address):
\*   ^((?:Unit\s+)?[\dA-Za-z]+[\/\\])(\d+(?:[A-Za-z])?)\s+(.+)$
\* group 2 is the building number, group 3 the rest of the address
unit_match(address) ==
    LET n       == Len(address)
        unit    == startswith(address, <<"U", "n", "i", "t", " ">>)
        start   == IF unit THEN RunEnd(address, 5, {" "}) + 1 ELSE 1
        slash   == RunEnd(address, start, Letters \cup Digits) + 1
        numEnd  == RunEnd(address, slash + 1, Digits)
        letter  == numEnd + 1 <= n /\ address[numEnd + 1] \in Letters
        g2End   == IF letter THEN numEnd + 1 ELSE numEnd
        restAt  == RunEnd(address, g2End + 1, {" "}) + 1
        matched == /\ slash > start
                   /\ slash <= n
                   /\ address[slash] \in {"/", "\\"}
                   /\ numEnd > slash
                   /\ restAt > g2End + 1
                   /\ restAt <= n
    IN  [matched |-> matched,
         building_number |-> IF matched THEN SubSeq(address, slash + 1, g2End) ELSE <<>>,
         rest_of_address |-> IF matched THEN SubSeq(address, restAt, n) ELSE <<>>]

\* the common tail of the two address patterns, matched against s from position
\* from on:  \s+[\w\s]+\s+[A-Z]{2,3}\s+\d{4,5}$
address_tail(s, from) ==
    \E st \in (from + 3)..Len(s), p \in (from + 6)..Len(s) :
        \E e \in {st + 1, st + 2} :
            /\ e < p - 1
            /\ AllIn(s, from, st - 1, WordOrSpace)
            /\ s[from] = " "
            /\ s[st - 1] = " "
            /\ AllIn(s, st, e, UpperSet)
            /\ AllIn(s, e + 1, p - 1, {" "})
            /\ Len(s) - p + 1 \in {4, 5}
            /\ AllIn(s, p, Len(s), Digits)

\* re.match(self.address_pattern1, s):
\*   ^\d+\s+[\w\s]+,\s+[\w\s]+\s+[A-Z]{2,3}\s+\d{4,5}$
address_pattern1(s) ==
    \E c \in 4..Len(s) :
        /\ s[c] = ","
        /\ AllIn(s, 1, c - 1, WordOrSpace)
        /\ \E i \in 1..(c - 3) : AllIn(s, 1, i, Digits) /\ s[i + 1] = " "
        /\ address_tail(s, c + 1)

\* re.match(self.address_pattern2, s):
\*   ^Cnr\s+[\w\s]+\s+&\s+[\w\s]+,\s+[\w\s]+\s+[A-Z]{2,3}\s+\d{4,5}$
address_pattern2(s) ==
    /\ startswith(s, <<"C", "n", "r", " ">>)
    /\ \E a \in 7..Len(s), c \in 10..Len(s) :
          /\ s[a] = "&"
          /\ AllIn(s, 4, a - 1, WordOrSpace)
          /\ s[a - 1] = " "
          /\ c > a + 2
          /\ s[c] = ","
          /\ s[a + 1] = " "
          /\ AllIn(s, a + 1, c - 1, WordOrSpace)
          /\ address_tail(s, c + 1)

\* re.search(r'\b\d{4}\b', address): the position of the first run of four digits
\* that stands between word boundaries, 0 when there is none
postcode_match(address) ==
    LET hits == {p \in 1..(Len(address) - 3) :
                    /\ AllIn(address, p, p + 3, Digits)
                    /\ (p = 1 \/ address[p - 1] \notin WordChars)
                    /\ (p + 3 = Len(address) \/ address[p + 4] \notin WordChars)}
    IN  IF hits = {} THEN 0 ELSE SetMin(hits)

\* self.au_states
au_states == <<<<"N", "S", "W">>, <<"V", "I", "C">>, <<"Q", "L", "D">>, <<"S", "A">>, <<"W", "A">>, <<"T", "A", "S">>, <<"N", "T">>, <<"A", "C", "T">>>>

\* the first state of au_states with f" {state} " in f" {address} ", 0 for none
state_match(address) ==
    LET padded == <<" ">> \o address \o <<" ">>
        found == {k \in 1..Len(au_states) : contains(padded, <<" ">> \o au_states[k] \o <<" ">>)}
    IN  IF found = {} THEN 0 ELSE SetMin(found)

\* the matches of \s+{state}\s+ in s from position from on, leftmost first and
\* not overlapping, as (start, end) pairs
RECURSIVE state_splits(_, _, _)
state_splits(s, state, from) ==
    LET starts == {i \in from..Len(s) :
                      /\ s[i] = " "
                      /\ LET w == RunEnd(s, i, {" "})
                             t == w + Len(state)
                         IN  /\ t < Len(s)
                             /\ SubSeq(s, w + 1, t) = state
                             /\ s[t + 1] = " "}
    IN  IF starts = {} THEN <<>>
        ELSE LET i == SetMin(starts)
                 t == RunEnd(s, i, {" "}) + Len(state)
                 e == RunEnd(s, t + 1, {" "})
             IN  <<[start |-> i, end |-> e]>> \o state_splits(s, state, e + 1)

\* str.rsplit(' ', 1) of a string with a space in it
rsplit1(s) ==
    LET last == SetMax({i \in 1..Len(s) : s[i] = " "})
    IN  <<SubSeq(s, 1, last - 1), SubSeq(s, last + 1, Len(s))>>

\* a variant of stripped_address that keeps the unit in front of the number
stripped_address_KeepUnit(address) == address

\* lines 44-57: the address without its unit prefix
stripped_address(address) ==
    LET m == unit_match(address)
    IN  IF m.matched THEN m.building_number \o <<" ">> \o m.rest_of_address ELSE address

\* lines 65-105 of validate_address: the attempt to rebuild an address that
\* matches neither pattern
rebuild_address(address) ==
    LET p == postcode_match(address)
        k == state_match(address)
    IN  IF p = 0 \/ k = 0 THEN [valid |-> FALSE, value |-> address]
        ELSE LET state == au_states[k]
                 cuts == state_splits(address, state, 1)
             IN  IF Len(cuts) # 1 THEN [valid |-> FALSE, value |-> address]
                 ELSE LET part0 == strip(SubSeq(address, 1, cuts[1].start - 1))
                          street_part ==
                              IF /\ \A i \in 1..Len(part0) : part0[i] # ","
                                 /\ \E i \in 1..Len(part0) : part0[i] = " "
                              THEN strip(rsplit1(part0)[1]) \o <<",", " ">>
                                       \o strip(rsplit1(part0)[2])
                              ELSE part0
                          formatted_address ==
                              street_part \o <<",", " ">> \o state \o <<" ">>
                                  \o SubSeq(address, p, p + 3)
                      IN  IF address_pattern1(formatted_address)
                               \/ address_pattern2(formatted_address)
                          THEN [valid |-> TRUE, value |-> formatted_address]
                          ELSE [valid |-> FALSE, value |-> address]

validate_address(raw) ==
    IF ~Truthy(raw) \/ ~IsStr(raw) THEN [valid |-> FALSE, value |-> Empty]
    ELSE LET address == stripped_address(strip(raw))
         IN  IF address_pattern1(address) \/ address_pattern2(address)
             THEN [valid |-> TRUE, value |-> address]
             ELSE rebuild_address(address)

(***************************************************************************)
(* The table and the oracle answers format_data_for_excel is called with.  *)
(***************************************************************************)
Columns == {"Practice", "Address", "Website", "Phone", "Name", "Email", "Doctors",
            "Type", "Initial Consult", "Follow-up Consult", "Date", "Notes"}

PracticeNames == {<<"A">>, <<"B">>}
Address1 == <<"Unit 2/40 Minchinton St, Caloundra QLD 4551">>
Website1 == <<"http://www.wisemind.com.au">>
\* Phone cells: empty, unformatted mobile, too short to be a phone number
PhoneCells == {NaN, <<"0", "4", "9", "0", "1", "9", "3", "3", "4", "7">>, <<"n", "/", "a">>}
\* what the enrichment columns of the table hold before the pass: nothing, as ""
\* or as NaN (what read_excel gives for an empty cell); values the candidate
\* differs from; values equal to the candidate's once trimmed
Priors == {"blank", "nan", "old", "same"}

\* a value the candidate will differ from
OldCell(c) ==
    CASE c = "Email" -> <<"o", "@", "w", ".", "a", "u">>
      [] c = "Doctors" -> HttpPrefix \o <<"w", ".", "a", "u", "/", "o">>
      [] c = "Initial Consult" -> <<"2", "0", "0">>
      [] c = "Follow-up Consult" -> <<"1", "5", "0">>
      [] c = "Name" -> <<"O", "l", "d">>
      [] c = "Type" -> <<"G">>
      [] OTHER -> <<"o", "l", "d">>
\* a value that equals the candidate's normalized value once trimmed
SameCell(c) ==
    CASE c = "Email" -> <<"a", "@", "w", ".", "a", "u", " ">>
      [] c = "Doctors" -> HttpPrefix \o <<"w", ".", "a", "u", "/", "t">>
      [] c = "Initial Consult" -> <<" ", "2", "2", "0">>
      [] c = "Follow-up Consult" -> <<"1", "8", "0">>
      [] c = "Name" -> <<"S", "1">>
      [] c = "Type" -> <<"C">>
      [] OTHER -> <<"o", "l", "d">>

TableRow(practice, phone, prior) ==
    [c \in Columns |->
        CASE c = "Practice" -> practice
          [] c = "Address" -> Address1
          [] c = "Website" -> Website1
          [] c = "Phone" -> phone
          [] OTHER -> CASE prior = "blank" -> Empty
                        [] prior = "nan" -> NaN
                        [] prior = "old" -> OldCell(c)
                        [] OTHER -> SameCell(c)]

Tables ==
    {[i \in 1..NumRows |-> TableRow(pr[i], ph, pri)] :
        pr \in [1..NumRows -> PracticeNames], ph \in PhoneCells, pri \in Priors}

DigitChar(k) == CHOOSE d \in Digits :
    d = CASE k % 10 = 0 -> "0" [] k % 10 = 1 -> "1" [] k % 10 = 2 -> "2"
          [] k % 10 = 3 -> "3" [] k % 10 = 4 -> "4" [] k % 10 = 5 -> "5"
          [] k % 10 = 6 -> "6" [] k % 10 = 7 -> "7" [] k % 10 = 8 -> "8"
          [] OTHER -> "9"

\* the k-th entry of the staff roster the oracle answers are cut from: every third
\* entry has no name and a category nothing can be inferred from
Staff(k) ==
    [name |-> IF k % 3 = 0 THEN Empty ELSE <<"S", DigitChar(k)>>,
     type |-> CASE k % 3 = 1 -> <<"C">>
                [] k % 3 = 2 -> <<" ", "g", "e", "n", "e", "r", "a", "l">>
                [] OTHER -> <<"p", "s", "y">>]
StaffLists ==
    {<<>>} \cup {[k \in 1..n |-> Staff(k + shift)] : n \in 1..MaxStaff, shift \in {0, 2}}

Qualities == {"valid", "invalid", "missing"}
CandidateField(key, q) ==
    IF q = "missing" THEN Empty
    ELSE IF q = "invalid"
    THEN CASE key = "email" -> <<"A", "@", "w">>
           [] key = "doctor_page_url" -> <<"w">>
           [] OTHER -> <<"P", "O", "A">>
    ELSE CASE key = "email" -> <<" ", "A", "@", "w", ".", "a", "u">>
           [] key = "doctor_page_url" -> <<"w", ".", "a", "u", "/", "t">>
           [] key = "initial_consult" -> <<"$", "2", "2", "0">>
           [] OTHER -> <<"$", "1", "8", "0">>

\* an oracle answer: a CandidateRecord, {"error": ...}, {"raw_response": ...} (the
\* response was not JSON), an empty list, or no entry for the practice at all
Answer(kind, q, staff) ==
    [kind |-> kind,
     error |-> IF kind = "error" THEN <<"quota exceeded">> ELSE Empty,
     email |-> IF kind = "record" THEN CandidateField("email", q) ELSE Empty,
     doctor_page_url |-> IF kind = "record" THEN CandidateField("doctor_page_url", q) ELSE Empty,
     pricing_info |->
        [initial_consult |-> IF kind = "record" THEN CandidateField("initial_consult", q) ELSE Empty,
         followup_consult |-> IF kind = "record" THEN CandidateField("followup_consult", q) ELSE Empty],
     psychologists |-> IF kind = "record" THEN staff ELSE <<>>]

AnswersA ==
    {Answer(k, "missing", <<>>) : k \in {"absent", "error", "raw_response", "empty_list"}}
    \cup {Answer("record", q, st) : q \in Qualities, st \in StaffLists}
AnswersB ==
    {Answer(k, "missing", <<>>) : k \in {"absent", "error"}}
    \cup {Answer("record", "valid", [k \in 1..2 |-> Staff(k)])}

Today == <<"2026-11-02">>

(***************************************************************************)
(* DataFormatter.                                                          *)
(***************************************************************************)
\* the f-string of flag_discrepancies, kept structured
Message(field, existing_value, new_value) ==
    [field |-> field, existing |-> existing_value, new |-> new_value]

flag_discrepancies(existing_data, new_data, field) ==
    IF field \notin DOMAIN existing_data \/ field \notin DOMAIN new_data
    THEN [has |-> FALSE, message |-> Empty]
    ELSE LET existing_value == existing_data[field]
             new_value == new_data[field]
         IN  IF ~Truthy(existing_value) \/ ~Truthy(new_value)
             THEN [has |-> FALSE, message |-> Empty]
             ELSE IF strip(Str(existing_value)) # strip(Str(new_value))
             THEN [has |-> TRUE, message |-> Message(field, existing_value, new_value)]
             ELSE [has |-> FALSE, message |-> Empty]

\* "Format all phone numbers in the DataFrame first"
FormatPhone(row) ==
    LET phone == row["Phone"]
        v == validate_phone(Str(phone))
    IN  IF notna(phone) /\ Truthy(phone) /\ v.valid
        THEN [row EXCEPT !["Phone"] = v.value] ELSE row

\* the Series "row" of the loop: a view of the table's row or the copy taken when
\* the iteration started
RowRead(t, row0, i) == IF rowIsView THEN t[i] ELSE row0

\* a list answer is replaced by its first item, an empty list by an error
ResolveList(practice_data) ==
    IF practice_data.kind = "empty_list"
    THEN [practice_data EXCEPT !.kind = "error",
                               !.error = <<"Empty list for practice data">>]
    ELSE practice_data

\* a variant of UpdateField in which a discrepancy blocks the overwrite
UpdateField_Blocking(st, row0, i, field, present, v) ==
    IF present /\ v.valid
    THEN LET f == flag_discrepancies(RowRead(st.t, row0, i), (field :> v.value), field)
         IN  IF f.has THEN [st EXCEPT !.d = Append(st.d, <<i, f.message>>)]
             ELSE [st EXCEPT !.t[i][field] = v.value]
    ELSE st

\* one guarded field update: flag against the row, then overwrite
\* st = [t |-> table, d |-> discrepancies, n |-> new rows]
UpdateField(st, row0, i, field, present, v) ==
    IF present /\ v.valid
    THEN LET f == flag_discrepancies(RowRead(st.t, row0, i), (field :> v.value), field)
         IN  [st EXCEPT !.t[i][field] = v.value,
                        !.d = IF f.has THEN Append(st.d, <<i, f.message>>) ELSE st.d]
    ELSE st

SetCell(st, i, field, value) == [st EXCEPT !.t[i][field] = value]

\* a variant of NewRow that forgets to carry the email over
NewRow_NoEmail(row, i, psych, practice_data) ==
    LET r1 == IF Truthy(psych.name) THEN [row EXCEPT !["Name"] = psych.name] ELSE row
        ty == validate_psychologist_type(psych.type)
        r2 == IF Truthy(psych.type) /\ ty.valid THEN [r1 EXCEPT !["Type"] = ty.value] ELSE r1
        u  == validate_url(practice_data.doctor_page_url)
        r3 == IF Truthy(practice_data.doctor_page_url) /\ u.valid
              THEN [r2 EXCEPT !["Doctors"] = u.value] ELSE r2
    IN  [name |-> i, data |-> [r3 EXCEPT !["Date"] = Today]]

\* the new row built for one additional psychologist
NewRow(row, i, psych, practice_data) ==
    LET r1 == IF Truthy(psych.name) THEN [row EXCEPT !["Name"] = psych.name] ELSE row
        ty == validate_psychologist_type(psych.type)
        r2 == IF Truthy(psych.type) /\ ty.valid THEN [r1 EXCEPT !["Type"] = ty.value] ELSE r1
        u  == validate_url(practice_data.doctor_page_url)
        r3 == IF Truthy(practice_data.doctor_page_url) /\ u.valid
              THEN [r2 EXCEPT !["Doctors"] = u.value] ELSE r2
        e  == validate_email(practice_data.email)
        r4 == IF Truthy(practice_data.email) /\ e.valid
              THEN [r3 EXCEPT !["Email"] = e.value] ELSE r3
    IN  [name |-> i, data |-> [r4 EXCEPT !["Date"] = Today]]

\* a variant of ErrorRow that stamps the date before it gives up on the row
ErrorRow_Dated(st, i, practice_data) ==
    [st EXCEPT !.t[i]["Notes"] = <<"Extraction error: ">> \o practice_data.error,
               !.t[i]["Date"] = Today]

\* "Check for extraction errors": the note, then continue
ErrorRow(st, i, practice_data) ==
    SetCell(st, i, "Notes", <<"Extraction error: ">> \o practice_data.error)

\* email, doctor page URL, prices and date of one row
UpdateContact(st, row0, i, practice_data) ==
    LET s1 == UpdateField(st, row0, i, "Email", Truthy(practice_data.email),
                          validate_email(practice_data.email))
        s2 == UpdateField(s1, row0, i, "Doctors", Truthy(practice_data.doctor_page_url),
                          validate_url(practice_data.doctor_page_url))
        s3 == UpdateField(s2, row0, i, "Initial Consult",
                          Truthy(practice_data.pricing_info.initial_consult),
                          validate_price(practice_data.pricing_info.initial_consult))
        s4 == UpdateField(s3, row0, i, "Follow-up Consult",
                          Truthy(practice_data.pricing_info.followup_consult),
                          validate_price(practice_data.pricing_info.followup_consult))
    IN  SetCell(s4, i, "Date", Today)

\* name and type of the first psychologist, written into the current row
UpdateFirst(st, row0, i, first_psych) ==
    LET s1 == UpdateField(st, row0, i, "Name", Truthy(first_psych.name),
                          [valid |-> TRUE, value |-> first_psych.name])
    IN  UpdateField(s1, row0, i, "Type", Truthy(first_psych.type),
                    validate_psychologist_type(first_psych.type))

\* a variant of AppendNewRows that puts the new rows in front (insert(0, ...))
AppendNewRows_InFront(st, row0, i, practice_data) ==
    LET psychologists == practice_data.psychologists
    IN  [st EXCEPT !.n = [k \in 1..(Len(psychologists) - 1) |->
                             NewRow(RowRead(st.t, row0, i), i,
                                    psychologists[k + 1], practice_data)] \o st.n]

\* "Create new rows for additional psychologists": for psych in psychologists[1:]
AppendNewRows(st, row0, i, practice_data) ==
    LET psychologists == practice_data.psychologists
    IN  [st EXCEPT !.n = st.n \o [k \in 1..(Len(psychologists) - 1) |->
                                     NewRow(RowRead(st.t, row0, i), i,
                                            psychologists[k + 1], practice_data)]]

\* "Process psychologists": no staff is a note, otherwise the first one goes
\* into the row and the others into new rows
ProcessPsychologists(st, row0, i, practice_data) ==
    IF practice_data.psychologists = <<>>
    THEN SetCell(st, i, "Notes", <<"No psychologists found">>)
    ELSE AppendNewRows(UpdateFirst(st, row0, i, practice_data.psychologists[1]),
                       row0, i, practice_data)

\* practice_name not in extracted_data
NotExtracted(practice_name) ==
    \/ ~Truthy(practice_name)
    \/ practice_name \notin DOMAIN extracted_data
    \/ extracted_data[practice_name].kind = "absent"

\* one iteration of "for idx, row in updated_df.iterrows()"
ProcessPractice(st, i) ==
    LET row0 == st.t[i]
        practice_name == row0["Practice"]
    IN  IF NotExtracted(practice_name) THEN st
        ELSE LET practice_data == ResolveList(extracted_data[practice_name])
             IN  IF practice_data.kind = "error" THEN ErrorRow(st, i, practice_data)
                 ELSE ProcessPsychologists(UpdateContact(st, row0, i, practice_data),
                                           row0, i, practice_data)

(***************************************************************************)
(* format_data_for_excel as a state machine.                               *)
(***************************************************************************)
RInit ==
    /\ df \in Tables
    /\ \E a \in AnswersA, b \in AnswersB :
          extracted_data = (<<"A">> :> a @@ <<"B">> :> b)
    /\ rowIsView \in BOOLEAN
    /\ updated_df = <<>>
    /\ new_rows = <<>>
    /\ discrepancies = <<>>
    /\ pc = "start"
    /\ idx = 1

\* updated_df = df.copy(); new_rows = []; discrepancies = []; the phone pass
FormatPhones ==
    /\ pc = "start"
    /\ updated_df' = [i \in 1..Len(df) |-> FormatPhone(df[i])]
    /\ new_rows' = <<>>
    /\ discrepancies' = <<>>
    /\ pc' = "rows"
    /\ idx' = 1
    /\ UNCHANGED <<df, extracted_data, rowIsView>>

ProcessRow ==
    /\ pc = "rows"
    /\ idx <= Len(updated_df)
    /\ LET s == ProcessPractice([t |-> updated_df, d |-> discrepancies, n |-> new_rows], idx)
       IN  /\ updated_df' = s.t
           /\ discrepancies' = s.d
           /\ new_rows' = s.n
    /\ idx' = idx + 1
    /\ UNCHANGED <<df, extracted_data, rowIsView, pc>>

\* return updated_df, new_rows, discrepancies
Return ==
    /\ pc = "rows"
    /\ idx > Len(updated_df)
    /\ pc' = "done"
    /\ UNCHANGED <<df, extracted_data, rowIsView, updated_df, new_rows, discrepancies, idx>>

FIdle ==
    /\ url = [scheme |-> TRUE, netloc |-> TRUE]
    /\ fpc = "idle"
    /\ retries = 0
    /\ trace = <<>>
    /\ result = [success |-> FALSE, content |-> None]

(***************************************************************************)
(* WebScraper.fetch_url as a state machine.                                *)
(***************************************************************************)
max_retries == 3

\* what one session.get can do: answer with a status code, or raise a
\* requests.RequestException (status 0 here)
Outcomes == {200, 404, 500, 503, 0}

\* all([result.scheme, result.netloc])
is_valid_url(u) == u.scheme /\ u.netloc

Get(status) == [op |-> "GET", status |-> status, seconds |-> 0]
Sleep(seconds) == [op |-> "sleep", status |-> 0, seconds |-> seconds]
Failure == [success |-> FALSE, content |-> None]
Success(status) == [success |-> TRUE, content |-> <<"response", status>>]

FInit ==
    /\ url \in [scheme : BOOLEAN, netloc : BOOLEAN]
    /\ fpc = "call"
    /\ retries = 0
    /\ trace = <<>>
    /\ result = Failure

\* if not self.is_valid_url(url): return False, None; retries = 0
FetchCall ==
    /\ fpc = "call"
    /\ fpc' = IF is_valid_url(url) THEN "loop" ELSE "done"
    /\ retries' = 0
    /\ result' = Failure
    /\ UNCHANGED <<url, trace>>

\* a variant of the loop condition that is off by one
LoopCondition_OffByOne == retries <= max_retries

\* while retries < max_retries
LoopCondition == retries < max_retries

\* a variant of AfterGet that retries a 404 like any other failure
AfterGet_Retry404(status) ==
    IF status = 200 THEN [fpc |-> "done", retries |-> retries, result |-> Success(status)]
    ELSE [fpc |-> "sleep", retries |-> retries + 1, result |-> result]

\* the status the attempt is answered with decides where the loop body goes
AfterGet(status) ==
    IF status = 200 THEN [fpc |-> "done", retries |-> retries, result |-> Success(status)]
    ELSE IF status = 404 THEN [fpc |-> "done", retries |-> retries, result |-> Failure]
    ELSE [fpc |-> "sleep", retries |-> retries + 1, result |-> result]

\* one pass of "while retries < max_retries" up to the sleep
FetchGet ==
    /\ fpc = "loop"
    /\ LoopCondition
    /\ \E status \in Outcomes :
          /\ trace' = Append(trace, Get(status))
          /\ fpc' = AfterGet(status).fpc
          /\ retries' = AfterGet(status).retries
          /\ result' = AfterGet(status).result
    /\ UNCHANGED url

\* time.sleep(2 * retries)
FetchSleep ==
    /\ fpc = "sleep"
    /\ trace' = Append(trace, Sleep(2 * retries))
    /\ fpc' = "loop"
    /\ UNCHANGED <<url, retries, result>>

\* the loop condition fails: return False, None
FetchExhausted ==
    /\ fpc = "loop"
    /\ ~LoopCondition
    /\ result' = Failure
    /\ fpc' = "done"
    /\ UNCHANGED <<url, retries, trace>>

RIdle ==
    /\ df = <<>>
    /\ extracted_data = <<>>
    /\ rowIsView = FALSE
    /\ updated_df = <<>>
    /\ new_rows = <<>>
    /\ discrepancies = <<>>
    /\ pc = "idle"
    /\ idx = 1

(***************************************************************************)
(* URLs as WebScraper handles them (urllib.parse on character strings).    *)
(***************************************************************************)
SchemeChars == Letters \cup Digits \cup {"+", "-", "."}

\* the position of the first occurrence of character c in s, 0 when there is none
find(s, c) ==
    IF \E i \in 1..Len(s) : s[i] = c THEN SetMin({i \in 1..Len(s) : s[i] = c}) ELSE 0

\* str.endswith(suffix)
endswith(s, suffix) ==
    Len(s) >= Len(suffix) /\ SubSeq(s, Len(s) - Len(suffix) + 1, Len(s)) = suffix

\* str.replace(old, ""): every non-overlapping occurrence of old, left to right
RECURSIVE remove_all(_, _)
remove_all(s, old) ==
    IF s = <<>> THEN <<>>
    ELSE IF startswith(s, old) THEN remove_all(SubSeq(s, Len(old) + 1, Len(s)), old)
    ELSE <<Head(s)>> \o remove_all(Tail(s), old)

\* urlparse(u): the scheme is what precedes the first ":" when that is a letter
\* followed by scheme characters; the netloc is what follows a leading "//" of
\* the rest, up to the next "/", "?" or "#"
urlparse(u) ==
    LET colon  == find(u, ":")
        has    == /\ colon > 1
                  /\ u[1] \in Letters
                  /\ AllIn(u, 1, colon - 1, SchemeChars)
        scheme == IF has THEN lower(SubSeq(u, 1, colon - 1)) ELSE <<>>
        rest   == IF has THEN SubSeq(u, colon + 1, Len(u)) ELSE u
        after  == SubSeq(rest, 3, Len(rest))
        stops  == {i \in 1..Len(after) : after[i] \in {"/", "?", "#"}}
        cut    == IF stops = {} THEN Len(after) ELSE SetMin(stops) - 1
        slashed == startswith(rest, <<"/", "/">>)
    IN  [scheme |-> scheme,
         netloc |-> IF slashed THEN SubSeq(after, 1, cut) ELSE <<>>,
         path   |-> IF slashed THEN SubSeq(after, cut + 1, Len(after)) ELSE rest]

\* urljoin(base, href) for a href without dot segments and with a path (not a
\* bare query or fragment): a href with a scheme of its own is kept, "//host/.." takes the base's scheme, "/path" the base's
\* scheme and netloc, and anything else replaces the last segment of the base's
\* path
urljoin(base, href) ==
    LET b == urlparse(base)
        h == urlparse(href)
        root == b.scheme \o <<":", "/", "/">> \o b.netloc
        slashes == {i \in 1..Len(b.path) : b.path[i] = "/"}
        dir == IF slashes = {} THEN <<"/">> ELSE SubSeq(b.path, 1, SetMax(slashes))
    IN  IF href = <<>> THEN base
        ELSE IF h.scheme # <<>> THEN href
        ELSE IF startswith(href, <<"/", "/">>) THEN b.scheme \o <<":">> \o href
        ELSE IF startswith(href, <<"/">>) THEN root \o href
        ELSE root \o dir \o href

\* WebScraper.clean_url
clean_url(u) ==
    IF ~Truthy(u) THEN None
    ELSE LET s == strip(u)
             w == IF startswith(s, HttpPrefix) \/ startswith(s, HttpsPrefix)
                  THEN s ELSE HttpsPrefix \o s
         IN  IF endswith(w, <<"/">>) THEN SubSeq(w, 1, Len(w) - 1) ELSE w

\* WebScraper.is_valid_url on a character string
is_valid_url_str(u) ==
    /\ Truthy(u)
    /\ is_valid_url([scheme |-> urlparse(u).scheme # <<>>,
                     netloc |-> urlparse(u).netloc # <<>>])

\* WebScraper.is_same_domain
is_same_domain(url1, url2) ==
    LET domain1 == remove_all(urlparse(url1).netloc, <<"w", "w", "w", ".">>)
        domain2 == remove_all(urlparse(url2).netloc, <<"w", "w", "w", ".">>)
    IN  domain1 = domain2

\* self.target_pages
target_pages ==
    <<<<"a", "b", "o", "u", "t">>,
      <<"a", "b", "o", "u", "t", "-", "u", "s">>,
      <<"o", "u", "r", "-", "t", "e", "a", "m">>,
      <<"o", "u", "r", "-", "d", "o", "c", "t", "o", "r", "s">>,
      <<"o", "u", "r", "-", "p", "s", "y", "c", "h", "o", "l", "o", "g", "i", "s", "t", "s">>,
      <<"t", "e", "a", "m">>,
      <<"s", "t", "a", "f", "f">>,
      <<"p", "r", "a", "c", "t", "i", "t", "i", "o", "n", "e", "r", "s">>,
      <<"d", "o", "c", "t", "o", "r", "s">>,
      <<"p", "s", "y", "c", "h", "o", "l", "o", "g", "i", "s", "t", "s">>,
      <<"c", "l", "i", "n", "i", "c", "i", "a", "n", "s">>,
      <<"o", "u", "r", "-", "s", "e", "r", "v", "i", "c", "e", "s">>,
      <<"s", "e", "r", "v", "i", "c", "e", "s">>,
      <<"f", "e", "e", "s">>,
      <<"p", "r", "i", "c", "i", "n", "g">> >>

\* the keyword list of the role test in scrape_clinic
doctor_keywords ==
    <<<<"a", "b", "o", "u", "t">>,
      <<"t", "e", "a", "m">>,
      <<"s", "t", "a", "f", "f">>,
      <<"d", "o", "c", "t", "o", "r", "s">>,
      <<"p", "r", "a", "c", "t", "i", "t", "i", "o", "n", "e", "r", "s">>,
      <<"p", "s", "y", "c", "h", "o", "l", "o", "g", "i", "s", "t", "s">> >>

\* any(keyword in s for keyword in keywords)
any_keyword(keywords, s) == \E k \in 1..Len(keywords) : contains(s, keywords[k])

\* WebScraper.find_doctor_pages over the anchors of the main page, in page order
RECURSIVE find_doctor_pages(_, _)
find_doctor_pages(anchors, base_url) ==
    IF anchors = <<>> THEN <<>>
    ELSE LET a == Head(anchors)
             link_text == strip(lower(a.text))
             href == IF startswith(a.href, HttpPrefix) \/ startswith(a.href, HttpsPrefix)
                     THEN a.href ELSE urljoin(base_url, a.href)
             keep == /\ is_same_domain(href, base_url)
                     /\ \/ any_keyword(target_pages, link_text)
                        \/ any_keyword(target_pages, lower(href))
         IN  (IF keep THEN <<href>> ELSE <<>>) \o find_doctor_pages(Tail(anchors), base_url)

(***************************************************************************)
(* WebScraper.scrape_clinic as a state machine.                            *)
(***************************************************************************)
MaxLinks == 2

\* a Python dict as the sequence of its (key, value) items in insertion order
Keys(d) == {d[i].key : i \in 1..Len(d)}
DictSet(d, k, v) ==
    IF k \in Keys(d)
    THEN [i \in 1..Len(d) |-> IF d[i].key = k THEN [key |-> k, value |-> v] ELSE d[i]]
    ELSE Append(d, [key |-> k, value |-> v])
Range(s) == {s[i] : i \in 1..Len(s)}

Email1 == <<"a", "@", "w", ".", "a", "u">>
Email2 == <<"b", "@", "w", ".", "a", "u">>

\* what the rows handed to scrape_clinic hold: a practice name (or an empty
\* cell) and a website cell that is empty, blank, or an address with or
\* without scheme
CrawlPractices == {<<"A", " ", "&", " ", "B">>, NaN}
CrawlWebsites == {NaN, Empty, <<" ">>, <<"w", ".", "a", "u">>, <<"h", "t", "t", "p", ":", "/", "/", "w", "w", "w", ".", "w", ".", "a", "u", "/">>}

\* the anchors a main page may carry: a relative staff link, an absolute link
\* on the "www." host, a link to another site, a link without any keyword, a
\* link whose keyword is in its text only, and a link to a host that has "www."
\* in its middle
Anchors ==
    {[href |-> <<"/", "t", "e", "a", "m">>, text |-> <<"T", "e", "a", "m">>],
     [href |-> <<"h", "t", "t", "p", "s", ":", "/", "/", "w", "w", "w", ".", "w", ".", "a", "u", "/", "f", "e", "e", "s">>, text |-> <<"F", "e", "e", "s">>],
     [href |-> <<"h", "t", "t", "p", "s", ":", "/", "/", "x", ".", "a", "u", "/", "s", "t", "a", "f", "f">>, text |-> <<"S", "t", "a", "f", "f">>],
     [href |-> <<"/", "c", "o", "n", "t", "a", "c", "t">>, text |-> <<"C", "o", "n", "t", "a", "c", "t">>],
     [href |-> <<"/", "x">>, text |-> <<" ", "O", "u", "r", " ", "S", "t", "a", "f", "f">>],
     [href |-> <<"h", "t", "t", "p", "s", ":", "/", "/", "w", ".", "w", "w", "w", ".", "a", "u", "/", "s", "t", "a", "f", "f">>, text |-> <<"S", "t", "a", "f", "f">>]}
AnchorLists == UNION {[1..n -> Anchors] : n \in 0..MaxLinks}

\* a page as the server holds it: its anchors and its structured text, the text
\* with the e-mail addresses that occur in it
MainPages ==
    {[anchors |-> a,
      text |-> [of |-> <<"m", "a", "i", "n">>, emails |-> IF a = <<>> THEN <<>> ELSE <<Email1>>]] :
        a \in AnchorLists}
SubPage(u) ==
    [anchors |-> <<>>,
     text |-> [of |-> u,
               emails |-> IF contains(u, <<"t", "e", "a", "m">>) THEN <<Email1, Email2>>
                          ELSE IF contains(u, <<"f", "e", "e", "s">>) THEN <<Email2>> ELSE <<>>]]

\* what the server answers to the successive GETs of one fetch_url call: 200 or
\* 404 at once, 200 or 404 on the last attempt, or no good answer at all
ServerScripts ==
    {[i \in 1..max_retries |-> IF i < k THEN 500 ELSE s] :
        k \in {1, max_retries}, s \in {200, 404}}
    \cup {[i \in 1..max_retries |-> IF i = 2 THEN 0 ELSE 503]}

\* the loop of fetch_url against a server script, from the retries-th retry on
RECURSIVE fetch_attempts(_, _, _)
fetch_attempts(body, script, r) ==
    IF ~(r < max_retries) THEN [success |-> FALSE, content |-> None, gets |-> r]
    ELSE IF script[r + 1] = 200 THEN [success |-> TRUE, content |-> body, gets |-> r + 1]
    ELSE IF script[r + 1] = 404 THEN [success |-> FALSE, content |-> None, gets |-> r + 1]
    ELSE fetch_attempts(body, script, r + 1)

\* WebScraper.fetch_url(u) as scrape_clinic sees it: the returned pair and the
\* number of GETs the call issued
fetch_url(u, body, script) ==
    IF ~is_valid_url_str(u) THEN [success |-> FALSE, content |-> None, gets |-> 0]
    ELSE fetch_attempts(body, script, 0)

\* extract_text_with_structure(response.content), find_email(text)
extract_text_with_structure(body) == body.text
find_email(text) == text.emails

\* re.sub(r'[^\w\s-]', '', practice_name).strip().replace(' ', '_')
safe_name(practice_name) ==
    LET word(c) == c \in Letters \cup Digits \cup {"_", " ", "-"}
        kept == strip(SelectSeq(practice_name, word))
    IN  [i \in 1..Len(kept) |-> IF kept[i] = " " THEN "_" ELSE kept[i]]

NoDict == <<>>
FetchEntry(u, f) == [op |-> "fetch", url |-> u, gets |-> f.gets, success |-> f.success]
\* time.sleep(random.uniform(1, 2))
DelayEntry(u) == [op |-> "sleep", url |-> u, gets |-> 0, success |-> FALSE]

CInit ==
    /\ crow \in [idx : {0}, Practice : CrawlPractices, Website : CrawlWebsites,
                 save_to_file : BOOLEAN]
    /\ cpage \in MainPages
    /\ cpc = "start"
    /\ website_url = None
    /\ cresult = NoDict
    /\ creturned = NoDict
    /\ doctor_pages = <<>>
    /\ ci = 1
    /\ scraped_pages = {}
    /\ ctrace = <<>>
    /\ cfiles = [artifacts |-> <<>>, mapping |-> <<>>]

\* lines 254-276: the website cell is checked and cleaned, the result is set up
CrawlStart ==
    /\ cpc = "start"
    /\ IF ~Truthy(crow.Website) \/ ~IsStr(crow.Website)
       THEN /\ creturned' = [error |-> <<"Missing or invalid website URL">>]
            /\ cpc' = "done"
            /\ UNCHANGED <<website_url, cresult>>
       ELSE IF ~Truthy(clean_url(crow.Website))
       THEN /\ creturned' = [error |-> <<"Invalid URL format">>]
            /\ cpc' = "done"
            /\ UNCHANGED <<website_url, cresult>>
       ELSE /\ website_url' = clean_url(crow.Website)
            /\ cresult' = [practice_name |-> crow.Practice,
                           website_url |-> clean_url(crow.Website),
                           main_page_content |-> Empty,
                           email |-> <<>>,
                           doctor_pages |-> <<>>,
                           doctor_pages_content |-> <<>>,
                           other_pages_content |-> <<>>]
            /\ cpc' = "main"
            /\ UNCHANGED creturned
    /\ UNCHANGED <<crow, cpage, doctor_pages, ci, scraped_pages, ctrace, cfiles>>

\* a variant of MainFetched that goes on to the subpages whatever the fetch gave
MainFetched_Lenient(f) == TRUE

\* "if not success or not response" fails: the main page was fetched (the
\* response fetch_url returns with True has status 200, so bool(response) holds)
MainFetched(f) == f.success

\* lines 278-299: the main page is fetched, parsed and searched for links
CrawlMain ==
    /\ cpc = "main"
    /\ \E script \in ServerScripts :
          LET f == fetch_url(website_url, cpage, script)
              main_page_content == extract_text_with_structure(cpage)
              emails == find_email(main_page_content)
              found == find_doctor_pages(cpage.anchors, website_url)
          IN  /\ ctrace' = Append(ctrace, FetchEntry(website_url, f))
              /\ IF ~MainFetched(f)
                 THEN /\ creturned' = [error |-> <<"Failed to fetch", website_url>>]
                      /\ cpc' = "done"
                      /\ UNCHANGED <<cresult, doctor_pages>>
                 ELSE /\ cresult' = [cresult EXCEPT
                                        !.main_page_content = main_page_content,
                                        !.email = IF emails # <<>> THEN emails ELSE @,
                                        !.doctor_pages = found]
                      /\ doctor_pages' = found
                      /\ cpc' = "pages"
                      /\ UNCHANGED creturned
    /\ ci' = 1
    /\ scraped_pages' = {}
    /\ UNCHANGED <<crow, cpage, website_url, cfiles>>

\* a variant of AfterPage that gives the crawl up at a failed subpage
AfterPage_Fatal(fetched) == IF fetched THEN ci + 1 ELSE Len(doctor_pages) + 1

\* where the loop over doctor_pages goes after a page: "continue" and the end of
\* the body both lead to the next candidate
AfterPage(fetched) == ci + 1

\* lines 301-329: one pass of "for page_url in doctor_pages"
CrawlPage ==
    /\ cpc = "pages"
    /\ ci <= Len(doctor_pages)
    /\ LET page_url == doctor_pages[ci]
       IN  IF page_url \in scraped_pages
           THEN /\ ci' = ci + 1
                /\ UNCHANGED <<cresult, scraped_pages, ctrace>>
           ELSE \E script \in ServerScripts :
                  LET f == fetch_url(page_url, SubPage(page_url), script)
                      fetched == f.success
                      page_content == extract_text_with_structure(f.content)
                      is_doctor_page == any_keyword(doctor_keywords, lower(page_url))
                  IN  /\ ctrace' = ctrace \o <<DelayEntry(page_url), FetchEntry(page_url, f)>>
                      /\ ci' = AfterPage(fetched)
                      /\ IF ~fetched
                         THEN UNCHANGED <<cresult, scraped_pages>>
                         ELSE /\ cresult' =
                                   [cresult EXCEPT
                                     !.doctor_pages_content =
                                        IF is_doctor_page
                                        THEN DictSet(@, page_url, page_content) ELSE @,
                                     !.other_pages_content =
                                        IF is_doctor_page
                                        THEN @ ELSE DictSet(@, page_url, page_content),
                                     !.email = @ \o find_email(page_content)]
                              /\ scraped_pages' = scraped_pages \cup {page_url}
    /\ UNCHANGED <<crow, cpage, cpc, website_url, creturned, doctor_pages, cfiles>>

\* a variant of the file that lists in its header the pages it has sections for
Artifact_VisitedOnly(r) ==
    LET pages == r.doctor_pages_content \o r.other_pages_content
    IN  [practice |-> r.practice_name,
         website |-> r.website_url,
         emails |-> r.email,
         doctor_pages |-> [i \in 1..Len(pages) |-> pages[i].key],
         sections |->
            <<[role |-> "MAIN", url |-> r.website_url, content |-> r.main_page_content]>>
            \o [i \in 1..Len(r.doctor_pages_content) |->
                    [role |-> "DOCTOR", url |-> r.doctor_pages_content[i].key,
                     content |-> r.doctor_pages_content[i].value]]
            \o [i \in 1..Len(r.other_pages_content) |->
                    [role |-> "OTHER", url |-> r.other_pages_content[i].key,
                     content |-> r.other_pages_content[i].value]]]

\* the text file scrape_clinic writes for the practice
Artifact(r) ==
    LET section(role, item) == [role |-> role, url |-> item.key, content |-> item.value]
    IN  [practice |-> r.practice_name,
         website |-> r.website_url,
         emails |-> r.email,
         doctor_pages |-> r.doctor_pages,
         sections |->
            <<[role |-> "MAIN", url |-> r.website_url, content |-> r.main_page_content]>>
            \o [i \in 1..Len(r.doctor_pages_content) |->
                    section("DOCTOR", r.doctor_pages_content[i])]
            \o [i \in 1..Len(r.other_pages_content) |->
                    section("OTHER", r.other_pages_content[i])]]

\* lines 331-363: the e-mails lose their duplicates (and their order), the
\* artifact and the mapping line are written, the result is returned; re.sub
\* raises TypeError for a practice name that is not a string
CrawlSave ==
    /\ cpc = "pages"
    /\ ci > Len(doctor_pages)
    /\ LET r == [cresult EXCEPT !.email = Range(@)]
           file_name == [name |-> safe_name(r.practice_name), idx |-> crow.idx]
       IN  /\ cresult' = r
           /\ IF crow.save_to_file /\ ~IsStr(r.practice_name)
              THEN /\ cpc' = "raised"
                   /\ UNCHANGED <<creturned, cfiles>>
              ELSE /\ cpc' = "done"
                   /\ creturned' = r
                   /\ cfiles' =
                        IF crow.save_to_file
                        THEN [artifacts |-> DictSet(cfiles.artifacts, file_name, Artifact(r)),
                              mapping |-> Append(cfiles.mapping,
                                                 [file |-> file_name,
                                                  practice |-> r.practice_name])]
                        ELSE cfiles
    /\ UNCHANGED <<crow, cpage, website_url, doctor_pages, ci, scraped_pages, ctrace>>

CIdle ==
    /\ crow = [idx |-> 0, Practice |-> NaN, Website |-> NaN, save_to_file |-> FALSE]
    /\ cpage = [anchors |-> <<>>, text |-> [of |-> Empty, emails |-> <<>>]]
    /\ cpc = "idle"
    /\ website_url = None
    /\ cresult = NoDict
    /\ creturned = NoDict
    /\ doctor_pages = <<>>
    /\ ci = 1
    /\ scraped_pages = {}
    /\ ctrace = <<>>
    /\ cfiles = [artifacts |-> <<>>, mapping |-> <<>>]

(***************************************************************************)
(* WebScraper.scrape_all_clinics as a state machine: the orchestrator and  *)
(* the crawls its worker pool runs.  A crawl is taken here at the grain of *)
(* what it shares with the others: its row, the session it fetches through *)
(* and the files it writes.                                                *)
(***************************************************************************)
\* the value of key k in the dict d
DictGet(d, k) == d[CHOOSE i \in 1..Len(d) : d[i].key = k].value
\* d.update(other)
RECURSIVE DictUpdate(_, _)
DictUpdate(d, other) ==
    IF other = <<>> THEN d
    ELSE DictUpdate(DictSet(d, Head(other).key, Head(other).value), Tail(other))

\* self.df: a row that can be crawled, a row without practice name, a row
\* without website and another row that can be crawled
BatchTable ==
    <<[Practice |-> <<"A", " ", "&", " ", "B">>, Website |-> <<"w", ".", "a", "u">>],
      [Practice |-> NaN, Website |-> <<"h", "t", "t", "p", ":", "/", "/", "w", "w", "w", ".", "w", ".", "a", "u", "/">>],
      [Practice |-> <<"C">>, Website |-> NaN],
      [Practice |-> <<"D">>, Website |-> <<"x", ".", "a", "u">>]>>
\* self.green_rows: row positions in ascending order (identify_green_rows), the
\* position just past the table among them
GreenRowLists ==
    {g \in UNION {[1..n -> 0..Len(BatchTable)] : n \in 0..(Len(BatchTable) + 1)} :
        \A j \in 1..(Len(g) - 1) : g[j] < g[j + 1]}
WorkerCounts == {1, 2}
BatchSizes == {1, 2}
\* random.uniform(3, 5), in whole seconds
SleepTimes == 3..5

\* an attribute that may be None: the set of its values, empty for None
Nothing == {}
Some(x) == {x}
The(opt) == CHOOSE x \in opt : TRUE

BInit ==
    /\ self_df \in {Nothing, Some(BatchTable)}
    /\ green_rows \in {Nothing} \cup {Some(g) : g \in GreenRowLists}
    /\ max_workers \in WorkerCounts
    /\ batch_size \in BatchSizes
    /\ bpc = "call"
    /\ bi = 0
    /\ futures = <<>>
    /\ batch_results = <<>>
    /\ all_results = <<>>
    /\ session = {}
    /\ bfiles = [artifacts |-> <<>>, mapping |-> <<>>]
    /\ sleep_time = 0
    /\ breturned = NoDict

\* lines 376-380
BatchCall ==
    /\ bpc = "call"
    /\ IF self_df = Nothing \/ green_rows = Nothing
       THEN bpc' = "done" /\ breturned' = <<>>
       ELSE bpc' = "loop" /\ UNCHANGED breturned
    /\ all_results' = <<>>
    /\ UNCHANGED <<self_df, green_rows, max_workers, batch_size, bi, futures,
                   batch_results, session, bfiles, sleep_time>>

\* lines 383-393: the next batch is cut and its in-range rows are submitted
BatchSubmit ==
    /\ bpc = "loop"
    /\ bi < Len(The(green_rows))
    /\ LET last == IF bi + batch_size < Len(The(green_rows))
                   THEN bi + batch_size ELSE Len(The(green_rows))
           batch == SubSeq(The(green_rows), bi + 1, last)
           in_range(x) == x < Len(The(self_df))
           submitted == SelectSeq(batch, in_range)
       IN  futures' = [k \in 1..Len(submitted) |->
                          [idx |-> submitted[k], st |-> "pending", website_url |-> None,
                           outcome |-> NoDict, collected |-> FALSE]]
    /\ batch_results' = <<>>
    /\ bpc' = "collect"
    /\ UNCHANGED <<self_df, green_rows, max_workers, batch_size, bi, all_results,
                   session, bfiles, sleep_time, breturned>>

\* the futures a worker thread is executing
Running == {k \in 1..Len(futures) : futures[k].st \in {"running", "fetched"}}
\* a variant of Done that waits for a result and never sees an exception
Done_ReturnedOnly == {k \in 1..Len(futures) : futures[k].st = "returned"}

\* the futures that have a result or an exception
Done == {k \in 1..Len(futures) : futures[k].st \in {"returned", "raised"}}

\* a worker takes the next submitted crawl off the queue and runs scrape_clinic
\* up to the main fetch (lines 254-276)
WorkerStart(k) ==
    /\ bpc = "collect"
    /\ futures[k].st = "pending"
    /\ \A j \in 1..(k - 1) : futures[j].st # "pending"
    /\ Cardinality(Running) < max_workers
    /\ LET row == The(self_df)[futures[k].idx + 1]
       IN  futures' =
             [futures EXCEPT ![k] =
                IF ~Truthy(row.Website) \/ ~IsStr(row.Website)
                THEN [@ EXCEPT !.st = "returned",
                               !.outcome = [error |-> <<"Missing or invalid website URL">>]]
                ELSE IF ~Truthy(clean_url(row.Website))
                THEN [@ EXCEPT !.st = "returned",
                               !.outcome = [error |-> <<"Invalid URL format">>]]
                ELSE [@ EXCEPT !.st = "running", !.website_url = clean_url(row.Website)]]
    /\ UNCHANGED <<self_df, green_rows, max_workers, batch_size, bpc, bi, batch_results,
                   all_results, session, bfiles, sleep_time, breturned>>

\* the crawl fetches its main page through self.session (lines 278-282)
WorkerFetch(k) ==
    /\ futures[k].st = "running"
    /\ \E script \in ServerScripts :
          LET u == futures[k].website_url
              f == fetch_url(u, SubPage(u), script)
          IN  /\ session' = IF f.gets > 0 THEN session \cup {futures[k].idx} ELSE session
              /\ futures' =
                    [futures EXCEPT ![k] =
                        IF ~MainFetched(f)
                        THEN [@ EXCEPT !.st = "returned",
                                       !.outcome = [error |-> <<"Failed to fetch", u>>]]
                        ELSE [@ EXCEPT !.st = "fetched"]]
    /\ UNCHANGED <<self_df, green_rows, max_workers, batch_size, bpc, bi, batch_results,
                   all_results, bfiles, sleep_time, breturned>>

\* the crawl goes through its subpages and saves (lines 284-363): it writes its
\* artifact, appends its line to practice_mapping.txt and returns its result,
\* or re.sub raises TypeError on a practice name that is not a string
WorkerFinish(k) ==
    /\ futures[k].st = "fetched"
    /\ LET row == The(self_df)[futures[k].idx + 1]
           r == [practice_name |-> row.Practice, website_url |-> futures[k].website_url]
           file_name == [name |-> safe_name(row.Practice), idx |-> futures[k].idx]
       IN  IF ~IsStr(row.Practice)
           THEN /\ futures' = [futures EXCEPT ![k].st = "raised",
                                              ![k].outcome = <<"TypeError">>]
                /\ UNCHANGED bfiles
           ELSE /\ futures' = [futures EXCEPT ![k].st = "returned", ![k].outcome = r]
                /\ bfiles' = [artifacts |-> DictSet(bfiles.artifacts, file_name, r),
                              mapping |-> Append(bfiles.mapping,
                                                 [file |-> file_name,
                                                  practice |-> row.Practice])]
    /\ UNCHANGED <<self_df, green_rows, max_workers, batch_size, bpc, bi, batch_results,
                   all_results, session, sleep_time, breturned>>

\* a variant of Recorded without the except clause: only results are recorded
Recorded_NoExcept(fut) == IF fut.st = "raised" THEN NoDict ELSE fut.outcome

\* what the as_completed loop records for a future: its result, or
\* {"error": str(e)} for the exception it raised (lines 397-402)
Recorded(fut) == IF fut.st = "raised" THEN [error |-> fut.outcome] ELSE fut.outcome

\* lines 395-402: as_completed yields a finished future and its outcome is
\* recorded under its row index
Collect(k) ==
    /\ bpc = "collect"
    /\ k \in Done
    /\ ~futures[k].collected
    /\ batch_results' = DictSet(batch_results, futures[k].idx, Recorded(futures[k]))
    /\ futures' = [futures EXCEPT ![k].collected = TRUE]
    /\ UNCHANGED <<self_df, green_rows, max_workers, batch_size, bpc, bi, all_results,
                   session, bfiles, sleep_time, breturned>>

\* a variant of BatchOver that leaves the pool as soon as one future was yielded
BatchOver_FirstDone ==
    futures = <<>> \/ \E k \in 1..Len(futures) : futures[k].collected

\* the as_completed loop has yielded every future and the executor has shut down
BatchOver == \A k \in 1..Len(futures) : futures[k].collected

\* lines 404-407: the batch is merged; the loop goes on at once after the last
\* batch and pauses otherwise
BatchMerge ==
    /\ bpc = "collect"
    /\ BatchOver
    /\ all_results' = DictUpdate(all_results, batch_results)
    /\ IF bi + batch_size < Len(The(green_rows))
       THEN bpc' = "sleep" /\ UNCHANGED bi
       ELSE bpc' = "loop" /\ bi' = bi + batch_size
    /\ UNCHANGED <<self_df, green_rows, max_workers, batch_size, futures, batch_results,
                   session, bfiles, sleep_time, breturned>>

\* lines 408-410: time.sleep(random.uniform(3, 5)), then the next batch
BatchSleep ==
    /\ bpc = "sleep"
    /\ sleep_time' \in SleepTimes
    /\ bi' = bi + batch_size
    /\ bpc' = "loop"
    /\ UNCHANGED <<self_df, green_rows, max_workers, batch_size, futures, batch_results,
                   all_results, session, bfiles, breturned>>

\* lines 412-413
BatchReturn ==
    /\ bpc = "loop"
    /\ bi >= Len(The(green_rows))
    /\ breturned' = all_results
    /\ bpc' = "done"
    /\ UNCHANGED <<self_df, green_rows, max_workers, batch_size, bi, futures,
                   batch_results, all_results, session, bfiles, sleep_time>>

BIdle ==
    /\ self_df = Nothing
    /\ green_rows = Nothing
    /\ max_workers = 1
    /\ batch_size = 1
    /\ bpc = "idle"
    /\ bi = 0
    /\ futures = <<>>
    /\ batch_results = <<>>
    /\ all_results = <<>>
    /\ session = {}
    /\ bfiles = [artifacts |-> <<>>, mapping |-> <<>>]
    /\ sleep_time = 0
    /\ breturned = NoDict

(***************************************************************************)
(* The validators of DataValidator, called on their own.                   *)
(***************************************************************************)
MaxPhoneLen == 13

\* addresses with a unit in front: with and without "Unit", the unit and the
\* building number with and without a letter, either slash, one or two spaces
\* before the rest, rests that do and do not make an address of the accepted
\* shapes
UnitAddresses ==
    {word \o unit \o slash \o number \o gap \o rest :
        word \in {<<>>, <<"U", "n", "i", "t", " ">>},
        unit \in {<<"2">>, <<"3", "5", "B">>},
        slash \in {<<"/">>, <<"\\">>},
        number \in {<<"4", "0">>, <<"1", "2", "a">>},
        gap \in {<<" ">>, <<" ", " ">>},
        rest \in {<<"M", "i", "n", "c", "h", "i", "n", "t", "o", "n", " ", "S", "t", ",", " ", "C", "a", "l", "o", "u", "n", "d", "r", "a", " ", "Q", "L", "D", " ", "4", "5", "5", "1">>,
                  <<"M", "i", "n", "c", "h", "i", "n", "t", "o", "n", " ", "S", "t", " ", "C", "a", "l", "o", "u", "n", "d", "r", "a", " ", "Q", "L", "D", " ", "4", "5", "5", "1">>,
                  <<"H", "i", "g", "h", " ", "S", "t">>,
                  <<"S", "t", ",", " ", "K", "e", "w", " ", "V", "I", "C", " ", "3", "1", "0", "1", " ">>}}
\* addresses without unit, among them those of the repository's test
PlainAddresses ==
    {<<"4", "0", " ", "M", "i", "n", "c", "h", "i", "n", "t", "o", "n", " ", "S", "t", ",", " ", "C", "a", "l", "o", "u", "n", "d", "r", "a", " ", "Q", "L", "D", " ", "4", "5", "5", "1">>,
     <<"M", "i", "n", "c", "h", "i", "n", "t", "o", "n", " ", "S", "t", " ", "C", "a", "l", "o", "u", "n", "d", "r", "a", " ", "Q", "L", "D", " ", "4", "5", "5", "1">>,
     <<"4", "0", " ", "M", "i", "n", "c", "h", "i", "n", "t", "o", "n", " ", "S", "t", " ", "C", "a", "l", "o", "u", "n", "d", "r", "a", " ", "Q", "L", "D">>,
     <<"4", "0", " ", "M", "i", "n", "c", "h", "i", "n", "t", "o", "n", " ", "S", "t", " ", "C", "a", "l", "o", "u", "n", "d", "r", "a", " ", "Q", "L", "D", " ", "4", "5", "5", "1">>,
     <<"C", "n", "r", " ", "Q", "u", "e", "e", "n", " ", "&", " ", "V", "i", "c", "t", "o", "r", "i", "a", " ", "S", "t", ",", " ", "B", "r", "i", "s", "b", "a", "n", "e", " ", "Q", "L", "D", " ", "4", "0", "0", "0">>,
     <<"S", "h", "o", "p", " ", "3", "/", "5", " ", "X", " ", "S", "t", ",", " ", "Y", " ", "W", "A", " ", "6", "0", "0", "0">>,
     <<"1", "2", " ", "H", "i", "g", "h", " ", "S", "t", " ", "K", "e", "w", " ", "V", "I", "C", " ", "3", "1", "0", "1">>,
     <<"7", " ", "B", "a", "y", " ", "R", "d", " ", "G", "l", "e", "n", "e", "l", "g", " ", "S", "A", " ", "5", "0", "4", "5">>,
     <<" ", "4", "0", " ", "M", "i", "n", "c", "h", "i", "n", "t", "o", "n", " ", "S", "t", " ", "C", "a", "l", "o", "u", "n", "d", "r", "a", " ">>,
     <<"2", "/", "4", "0">>}

\* the leading digits the format table of validate_phone tells apart, and some
\* it does not
PhonePrefixes ==
    {<<"0", "4">>, <<"0", "2">>, <<"0", "3">>, <<"0", "7">>, <<"0", "8">>, <<"0", "5">>, <<"1", "3", "0", "0">>, <<"1", "8", "0", "0">>,
     <<"1", "3">>, <<"4">>, <<"6", "1">>, <<"9">>}
\* the digit string of length n that starts with prefix
PhoneDigits(prefix, n) == prefix \o [i \in 1..(n - Len(prefix)) |-> DigitChar(i)]
\* a digit string as it is written down: bare, with a "+" in front, or in groups
Written(d, how) ==
    CASE how = "plus" -> <<"+">> \o d
      [] how = "groups" -> <<"(">> \o SubSeq(d, 1, 2) \o <<")", " ">> \o SubSeq(d, 3, 6)
                              \o <<"-">> \o SubSeq(d, 7, Len(d))
      [] OTHER -> d
PhoneInputs ==
    {Written(PhoneDigits(prefix, n), how) :
        prefix \in PhonePrefixes, n \in 7..MaxPhoneLen, how \in {"bare", "plus", "groups"}}
    \cup {<<"0", "4", "9", "0", "1", "9", "3", "3", "4", "7">>,
          <<"0", "7", " ", "5", "4", "3", "8", " ", "1", "1", "1", "1">>}
    \cup {<<"n", "o", "t", "-", "a", "-", "p", "h", "o", "n", "e">>, <<"n", "/", "a">>}

EmailInputs ==
    {<<"a", "d", "m", "i", "n", "@", "w", "i", "s", "e", "m", "i", "n", "d", ".", "c", "o", "m", ".", "a", "u">>, <<" ", "A", "d", "m", "i", "n", "@", "W", "i", "s", "e", "m", "i", "n", "d", ".", "c", "o", "m", ".", "a", "u", " ">>, <<"n", "o", "t", "-", "a", "n", "-", "e", "m", "a", "i", "l">>,
     <<"N", "o", "t", "-", "A", "n", "-", "E", "m", "a", "i", "l">>, <<"m", "i", "s", "s", "i", "n", "g", "@", "d", "o", "m", "a", "i", "n">>, <<" ", "m", "i", "s", "s", "i", "n", "g", "@", "d", "o", "m", "a", "i", "n">>, <<"A", "@", "B", ".", "C">>}

\* psychologist types: those of the repository's test, and others in lower
\* case, with spaces around, or that hold the word inside
TypeInputs ==
    {<<"C">>, <<"G">>, <<"C", "l", "i", "n", "i", "c", "a", "l", " ", "P", "s", "y", "c", "h", "o", "l", "o", "g", "i", "s", "t">>, <<"G", "e", "n", "e", "r", "a", "l">>, <<"T", "h", "e", "r", "a", "p", "i", "s", "t">>,
     <<" ", "c", " ">>, <<"g">>, <<"C", "o", "u", "n", "s", "e", "l", "l", "o", "r">>, <<"r", "e", "g", "i", "s", "t", "e", "r", "e", "d", " ", "g", "e", "n", "e", "r", "a", "l">>, <<"n", "o", "n", "-", "c", "l", "i", "n", "i", "c", "a", "l">>, <<" ">>}

\* what a validator may be handed that is no text
NoText == {Empty, NaN, None}

VInit ==
    /\ vfn \in {"validate_address", "validate_phone", "validate_email",
                "validate_psychologist_type"}
    /\ vin \in CASE vfn = "validate_address" -> UnitAddresses \cup PlainAddresses \cup NoText
                 [] vfn = "validate_phone" -> PhoneInputs \cup NoText
                 [] vfn = "validate_psychologist_type" -> TypeInputs \cup NoText
                 [] OTHER -> EmailInputs \cup NoText
    /\ vout = [valid |-> FALSE, value |-> Empty]
    /\ vagain = [valid |-> FALSE, value |-> Empty]
    /\ vpc = "call"

CallValidateAddress ==
    /\ vpc = "call"
    /\ vfn = "validate_address"
    /\ vout' = validate_address(vin)
    /\ vpc' = "done"
    /\ UNCHANGED <<vfn, vin, vagain>>

CallValidatePhone ==
    /\ vpc = "call"
    /\ vfn = "validate_phone"
    /\ vout' = validate_phone(vin)
    /\ vpc' = "done"
    /\ UNCHANGED <<vfn, vin, vagain>>

CallValidateEmail ==
    /\ vpc = "call"
    /\ vfn = "validate_email"
    /\ vout' = validate_email(vin)
    /\ vpc' = "done"
    /\ UNCHANGED <<vfn, vin, vagain>>

CallValidatePsychologistType ==
    /\ vpc = "call"
    /\ vfn = "validate_psychologist_type"
    /\ vout' = validate_psychologist_type(vin)
    /\ vpc' = "done"
    /\ UNCHANGED <<vfn, vin, vagain>>

\* the validator called on the value it returned
CallAgain ==
    /\ vpc = "done"
    /\ vagain' = CASE vfn = "validate_address" -> validate_address(vout.value)
                   [] vfn = "validate_phone" -> validate_phone(vout.value)
                   [] vfn = "validate_email" -> validate_email(vout.value)
                   [] OTHER -> validate_psychologist_type(vout.value)
    /\ vpc' = "again"
    /\ UNCHANGED <<vfn, vin, vout>>

VIdle ==
    /\ vfn = "none"
    /\ vin = Empty
    /\ vout = [valid |-> FALSE, value |-> Empty]
    /\ vagain = [valid |-> FALSE, value |-> Empty]
    /\ vpc = "idle"

(***************************************************************************)
(* The specifications: each runs one of the machines and leaves the        *)
(* variables of the others idle.                                           *)
(***************************************************************************)
InitReconcile == RInit /\ FIdle /\ CIdle /\ BIdle /\ VIdle

NextReconcile ==
    \/ FormatPhones /\ UNCHANGED <<fvars, cvars, bvars, vvars>>
    \/ ProcessRow /\ UNCHANGED <<fvars, cvars, bvars, vvars>>
    \/ Return /\ UNCHANGED <<fvars, cvars, bvars, vvars>>

SpecReconcile == InitReconcile /\ [][NextReconcile]_vars

InitFetch == FInit /\ RIdle /\ CIdle /\ BIdle /\ VIdle

NextFetch ==
    \/ FetchCall /\ UNCHANGED <<rvars, cvars, bvars, vvars>>
    \/ FetchGet /\ UNCHANGED <<rvars, cvars, bvars, vvars>>
    \/ FetchSleep /\ UNCHANGED <<rvars, cvars, bvars, vvars>>
    \/ FetchExhausted /\ UNCHANGED <<rvars, cvars, bvars, vvars>>

SpecFetch == InitFetch /\ [][NextFetch]_vars

InitCrawl == CInit /\ RIdle /\ FIdle /\ BIdle /\ VIdle

NextCrawl ==
    \/ CrawlStart /\ UNCHANGED <<rvars, fvars, bvars, vvars>>
    \/ CrawlMain /\ UNCHANGED <<rvars, fvars, bvars, vvars>>
    \/ CrawlPage /\ UNCHANGED <<rvars, fvars, bvars, vvars>>
    \/ CrawlSave /\ UNCHANGED <<rvars, fvars, bvars, vvars>>

SpecCrawl == InitCrawl /\ [][NextCrawl]_vars

InitBatch == BInit /\ RIdle /\ FIdle /\ CIdle /\ VIdle

NextBatch ==
    \/ BatchCall /\ UNCHANGED <<rvars, fvars, cvars, vvars>>
    \/ BatchSubmit /\ UNCHANGED <<rvars, fvars, cvars, vvars>>
    \/ (\E k \in 1..Len(futures) : WorkerStart(k)) /\ UNCHANGED <<rvars, fvars, cvars, vvars>>
    \/ (\E k \in 1..Len(futures) : WorkerFetch(k)) /\ UNCHANGED <<rvars, fvars, cvars, vvars>>
    \/ (\E k \in 1..Len(futures) : WorkerFinish(k)) /\ UNCHANGED <<rvars, fvars, cvars, vvars>>
    \/ (\E k \in 1..Len(futures) : Collect(k)) /\ UNCHANGED <<rvars, fvars, cvars, vvars>>
    \/ BatchMerge /\ UNCHANGED <<rvars, fvars, cvars, vvars>>
    \/ BatchSleep /\ UNCHANGED <<rvars, fvars, cvars, vvars>>
    \/ BatchReturn /\ UNCHANGED <<rvars, fvars, cvars, vvars>>

SpecBatch == InitBatch /\ [][NextBatch]_vars

\* the interpreter and the threads of the pool keep running, and every GET
\* comes back with a response or an exception (timeout=30, line 110)
SpecBatchFair == SpecBatch /\ WF_vars(NextBatch)

InitValidate == VInit /\ RIdle /\ FIdle /\ CIdle /\ BIdle

NextValidate ==
    \/ CallValidateAddress /\ UNCHANGED <<rvars, fvars, cvars, bvars>>
    \/ CallValidatePhone /\ UNCHANGED <<rvars, fvars, cvars, bvars>>
    \/ CallValidateEmail /\ UNCHANGED <<rvars, fvars, cvars, bvars>>
    \/ CallValidatePsychologistType /\ UNCHANGED <<rvars, fvars, cvars, bvars>>
    \/ CallAgain /\ UNCHANGED <<rvars, fvars, cvars, bvars>>

SpecValidate == InitValidate /\ [][NextValidate]_vars

(***************************************************************************)
(* Properties of format_data_for_excel.                                    *)
(***************************************************************************)
\* the oracle answer looked up for row i of the table
PracticeData(i) == extracted_data[df[i]["Practice"]]
\* the new rows cloned from row i, in the order they were appended
ClonesOf(i) ==
    LET from_i(r) == r.name = i
    IN  SelectSeq(new_rows, from_i)
\* the discrepancies recorded for row i and column field
Flagged(i, field) ==
    {k \in 1..Len(discrepancies) :
        discrepancies[k][1] = i /\ discrepancies[k][2].field = field}
ReconciledFields == <<"Email", "Doctors", "Initial Consult", "Follow-up Consult", "Name", "Type">>
\* what the candidate a supplies for a column, normalized
Normalized(a, field) ==
    CASE field = "Email" -> validate_email(a.email)
      [] field = "Doctors" -> validate_url(a.doctor_page_url)
      [] field = "Initial Consult" -> validate_price(a.pricing_info.initial_consult)
      [] field = "Follow-up Consult" -> validate_price(a.pricing_info.followup_consult)
      [] field = "Name" ->
            IF a.psychologists # <<>> /\ a.psychologists[1].name # Empty
            THEN [valid |-> TRUE, value |-> a.psychologists[1].name]
            ELSE [valid |-> FALSE, value |-> Empty]
      [] OTHER ->
            IF a.psychologists # <<>>
            THEN validate_psychologist_type(a.psychologists[1].type)
            ELSE [valid |-> FALSE, value |-> Empty]
\* an empty cell of the table, however it is represented
IsBlank(v) == v = Empty \/ v = NaN

C2_RowsShareNonStaffFields ==
    pc = "done" =>
        \A i \in 1..Len(df) :
            LET a == PracticeData(i)
                clones == ClonesOf(i)
            IN  (a.kind = "record" /\ Len(a.psychologists) >= 1) =>
                    /\ Len(clones) = Len(a.psychologists) - 1
                    /\ \A k \in 1..Len(clones) :
                          \A c \in Columns \ {"Name", "Type"} :
                              clones[k].data[c] = updated_df[i][c]
                    /\ (\A k \in 1..Len(ReconciledFields) : df[i][ReconciledFields[k]] = Empty)
                          => \A k \in 1..Len(ReconciledFields) : Flagged(i, ReconciledFields[k]) = {}

\* C3: when the pass is over, a discrepancy is on record for a column of a row
\* exactly when the candidate's normalized value for it and the row's previous
\* value are both non-empty and differ after trimming; an empty previous value,
\* whether "" or NaN, gives none.
C3_DiscrepancyIff ==
    pc = "done" =>
        \A i \in 1..Len(df) :
            \A k \in 1..Len(ReconciledFields) :
                LET f == ReconciledFields[k]
                    a == PracticeData(i)
                    v == Normalized(a, f)
                    old == df[i][f]
                IN  (Flagged(i, f) # {}) <=>
                        /\ a.kind = "record"
                        /\ v.valid
                        /\ ~IsBlank(old)
                        /\ v.value # Empty
                        /\ strip(Str(old)) # strip(v.value)

\* C4: when the pass is over, every column for which the candidate supplied a
\* value that validates holds the normalized value, with or without a
\* discrepancy on record for it.
C4_NewDataWins ==
    pc = "done" =>
        \A i \in 1..Len(df) :
            \A k \in 1..Len(ReconciledFields) :
                LET f == ReconciledFields[k]
                    a == PracticeData(i)
                IN  (a.kind = "record" /\ f # "Name" /\ Normalized(a, f).valid) =>
                        updated_df[i][f] = Normalized(a, f).value

\* a discrepancy is on record for the email of row 1, and the row holds the new one
C4_Witness ==
    /\ pc = "done"
    /\ Flagged(1, "Email") # {}
    /\ Flagged(1, "Type") # {}
    /\ updated_df[1]["Email"] = Normalized(PracticeData(1), "Email").value
    /\ updated_df[1]["Email"] # df[1]["Email"]

\* the table as the phone pass leaves it, before the first row is processed
PhonePass == [i \in 1..Len(df) |-> FormatPhone(df[i])]
ErrorNote(a) == <<"Extraction error: ">> \o a.error

\* C5 as stated: when the pass is over, a row whose candidate signals an error
\* differs from its input in Notes only, and no new row was made for it.
C5_ErrorOnlyNotes ==
    pc = "done" =>
        \A i \in 1..Len(df) :
            PracticeData(i).kind = "error" =>
                /\ updated_df[i]["Notes"] = ErrorNote(PracticeData(i))
                /\ \A c \in Columns \ {"Notes"} : updated_df[i][c] = df[i][c]
                /\ ClonesOf(i) = <<>>

\* C5 as amended: when the pass is over, a row whose candidate signals an error
\* differs from its input in Notes (the error note) and, when its phone number
\* validates, in Phone (the formatted number); every other column equals its
\* input and no new row was made for it.
C5_ErrorNotesAndPhone ==
    pc = "done" =>
        \A i \in 1..Len(df) :
            PracticeData(i).kind = "error" =>
                /\ updated_df[i]["Notes"] = ErrorNote(PracticeData(i))
                /\ updated_df[i]["Phone"] =
                      IF validate_phone(df[i]["Phone"]).valid
                      THEN validate_phone(df[i]["Phone"]).value ELSE df[i]["Phone"]
                /\ \A c \in Columns \ {"Notes", "Phone"} : updated_df[i][c] = df[i][c]
                /\ ClonesOf(i) = <<>>

\* an error row whose phone number was reformatted and whose columns were filled
C5_Witness ==
    /\ pc = "done"
    /\ PracticeData(1).kind = "error"
    /\ updated_df[1]["Phone"] # df[1]["Phone"]
    /\ updated_df[1]["Notes"] = ErrorNote(PracticeData(1))
    /\ df[1]["Email"] = OldCell("Email")

\* C6: when the pass is over, a row whose practice has no candidate has a note
\* describing the failure, and every other column equals its input.
C6_UnmatchedNoted ==
    pc = "done" =>
        \A i \in 1..Len(df) :
            PracticeData(i).kind = "absent" =>
                /\ updated_df[i]["Notes"] # df[i]["Notes"]
                /\ ~IsBlank(updated_df[i]["Notes"])
                /\ \A c \in Columns \ {"Notes"} : updated_df[i][c] = df[i][c]

\* C7: when the pass is over, a row whose oracle answer is an error or is not a
\* CandidateRecord (unparsable response, empty list) has the error text as its
\* note, no other column written by its iteration and no new row; and the rows of
\* other practices are what processing them alone gives.
C7_ShortCircuit ==
    pc = "done" =>
        \A i \in 1..Len(df) :
            PracticeData(i).kind \in {"error", "raw_response", "empty_list"} =>
                /\ startswith(updated_df[i]["Notes"], <<"Extraction error: ">>)
                /\ \A c \in Columns \ {"Notes"} : updated_df[i][c] = PhonePass[i][c]
                /\ ClonesOf(i) = <<>>
                /\ \A j \in 1..Len(df) :
                      df[j]["Practice"] # df[i]["Practice"] =>
                          updated_df[j] =
                              ProcessPractice([t |-> PhonePass, d |-> <<>>, n |-> <<>>], j).t[j]

FieldRank(f) == CHOOSE k \in 1..Len(ReconciledFields) : ReconciledFields[k] = f
IsPrefix(s, t) == Len(s) <= Len(t) /\ SubSeq(t, 1, Len(s)) = s

\* the rows are the input rows, in input order
RowsInInputOrder ==
    /\ Len(updated_df) = Len(df)
    /\ \A i \in 1..Len(df) :
          \A c \in {"Practice", "Address", "Website"} : updated_df[i][c] = df[i][c]
\* new rows: by input record, and within a record by staff list, second first
NewRowsInOrder ==
    /\ \A k, l \in 1..Len(new_rows) : k < l => new_rows[k].name <= new_rows[l].name
    /\ \A i \in 1..Len(df) :
          LET staff == PracticeData(i).psychologists
              clones == ClonesOf(i)
          IN  \A k \in 1..Len(clones) :
                  /\ k + 1 <= Len(staff)
                  /\ staff[k + 1].name # Empty => clones[k].data["Name"] = staff[k + 1].name
\* discrepancies: by input record, and within a record by column
DiscrepanciesInOrder ==
    \A k, l \in 1..Len(discrepancies) :
        k < l =>
            \/ discrepancies[k][1] < discrepancies[l][1]
            \/ /\ discrepancies[k][1] = discrepancies[l][1]
               /\ FieldRank(discrepancies[k][2].field) < FieldRank(discrepancies[l][2].field)

\* C8: during the pass the rows stay the input rows in input order, the new rows
\* are in input-record order and within a record in staff-list order, the
\* discrepancies are in record order and within a record in column order; and
\* every step only appends to the new rows and to the discrepancies.
C8_Ordering ==
    /\ [](pc \in {"rows", "done"} =>
            RowsInInputOrder /\ NewRowsInOrder /\ DiscrepanciesInOrder)
    /\ [][IsPrefix(new_rows, new_rows') /\ IsPrefix(discrepancies, discrepancies')]_vars

\* both rows were expanded and both had discrepancies recorded
C8_Witness ==
    /\ pc = "done"
    /\ Len(ClonesOf(1)) >= 2
    /\ Len(ClonesOf(2)) >= 1
    /\ Cardinality({k \in 1..Len(discrepancies) : discrepancies[k][1] = 1}) >= 3
    /\ Cardinality({k \in 1..Len(discrepancies) : discrepancies[k][1] = 2}) >= 3

(***************************************************************************)
(* Properties of fetch_url.                                                *)
(***************************************************************************)
\* the positions of the GET requests in the trace of the call
Gets == {k \in 1..Len(trace) : trace[k].op = "GET"}

\* C9: a call for a URL without scheme or network location never issues a GET
\* and returns failure; any other call issues at most three GETs, has issued at
\* least one when it returns, and returns failure when its third GET was answered
\* with neither 200 nor 404.
C9_GetCount ==
    /\ ~is_valid_url(url) => Gets = {} /\ (fpc = "done" => ~result.success)
    /\ Cardinality(Gets) <= 3
    /\ (is_valid_url(url) /\ fpc = "done") => Cardinality(Gets) >= 1
    /\ (fpc = "done" /\ Cardinality(Gets) = 3
            /\ trace[SetMax(Gets \cup {0})].status \notin {200, 404}) => ~result.success

\* the call returned after three GETs that were answered 500, an exception, 503
C9_Witness ==
    /\ fpc = "done"
    /\ Cardinality(Gets) = 3
    /\ trace[1].status = 500
    /\ trace[3].status = 0
    /\ trace[5].status = 503
    /\ ~result.success

\* C10: a GET answered 404 or 200 is the last thing the call does, on whichever
\* attempt: nothing follows it in the trace (no sleep, no GET), the call has
\* returned, with failure after a 404 and with that response after a 200.
C10_TerminalStatus ==
    \A k \in Gets :
        trace[k].status \in {200, 404} =>
            /\ k = Len(trace)
            /\ fpc = "done"
            /\ result = IF trace[k].status = 200 THEN Success(200) ELSE Failure

\* a 404 on the second attempt, after one backoff
C10_Witness ==
    /\ fpc = "done"
    /\ Len(trace) = 3
    /\ trace[2].op = "sleep"
    /\ trace[3] = Get(404)
    /\ result = Failure

(***************************************************************************)
(* Properties of scrape_clinic.                                            *)
(***************************************************************************)
\* the positions in the trace of the crawl at which fetch_url was called
Fetches == {k \in 1..Len(ctrace) : ctrace[k].op = "fetch"}
\* the calls for subpages: every call but the first, which is for the main page
SubFetches == Fetches \ {1}
\* the crawl returned an error result
ReturnedError == cpc = "done" /\ "error" \in DOMAIN creturned
\* the website cell is missing or not a string
NoWebsite == ~Truthy(crow.Website) \/ ~IsStr(crow.Website)

\* C11: once the main-page fetch of a crawl has failed (a 404, three attempts
\* without a good answer, or an address fetch_url rejects), the crawl has
\* returned an error result, that fetch is the only one it made, no link was
\* discovered, the result lists no page and no file was written; and a crawl of
\* a row whose website is missing or not a string returns an error result
\* without calling fetch_url at all.
C11_MainFailureEndsCrawl ==
    /\ (Len(ctrace) >= 1 /\ ~ctrace[1].success) =>
          /\ ReturnedError
          /\ Fetches = {1}
          /\ Len(ctrace) = 1
          /\ doctor_pages = <<>>
          /\ DOMAIN creturned = {"error"}
          /\ cfiles = [artifacts |-> <<>>, mapping |-> <<>>]
    /\ (NoWebsite /\ cpc # "start") => ReturnedError /\ ctrace = <<>>

\* the main page of a site with staff links was given up after three GETs
C11_Witness ==
    /\ ReturnedError
    /\ Len(ctrace) = 1
    /\ ctrace[1].gets = max_retries
    /\ ~ctrace[1].success
    /\ find_doctor_pages(cpage.anchors, website_url) # <<>>

\* the page sections of the result so far: subpage URL -> text
Sections == cresult.doctor_pages_content \o cresult.other_pages_content
\* how often the URL u occurs in the candidate list
Occurrences(u) == Cardinality({j \in 1..Len(doctor_pages) : doctor_pages[j] = u})
\* the subpage calls made for the URL u
FetchesOf(u) == {k \in SubFetches : ctrace[k].url = u}

\* C12: a subpage fetch that fails leaves the crawl running.  At every moment
\* the page sections are exactly the subpages fetched successfully, each with
\* the text of that page; when the loop is over every candidate URL was either
\* fetched successfully or tried as often as it is listed; and the crawl
\* returns a result without error field that holds the main page's text and
\* those sections.
C12_SubpageFailureNonFatal ==
    /\ cpc \in {"pages", "done", "raised"} /\ ~ReturnedError =>
          /\ Keys(Sections) = {ctrace[k].url : k \in {j \in SubFetches : ctrace[j].success}}
          /\ \A i \in 1..Len(Sections) :
                Sections[i].value = SubPage(Sections[i].key).text
          /\ cresult.main_page_content = cpage.text
    /\ cpc \in {"done", "raised"} /\ ~ReturnedError =>
          \A j \in 1..Len(doctor_pages) :
              LET u == doctor_pages[j]
              IN  \/ \E k \in FetchesOf(u) : ctrace[k].success
                  \/ Cardinality(FetchesOf(u)) = Occurrences(u)
    /\ cpc = "done" /\ (\E k \in SubFetches : ~ctrace[k].success) =>
          /\ "error" \notin DOMAIN creturned
          /\ creturned.main_page_content = cpage.text
          /\ creturned.doctor_pages_content = cresult.doctor_pages_content
          /\ creturned.other_pages_content = cresult.other_pages_content

\* the first of two candidates could not be fetched, the second was fetched and
\* is in the result that was returned
C12_Witness ==
    /\ cpc = "done"
    /\ Len(doctor_pages) = 2
    /\ doctor_pages[1] # doctor_pages[2]
    /\ Len(ctrace) = 5
    /\ ~ctrace[3].success
    /\ ctrace[5].success
    /\ "error" \notin DOMAIN creturned
    /\ Keys(creturned.doctor_pages_content \o creturned.other_pages_content)
          = {doctor_pages[2]}

(***************************************************************************)
(* Properties of scrape_all_clinics.                                       *)
(***************************************************************************)
Loaded == self_df # Nothing /\ green_rows # Nothing
\* the selected row indices that lie inside the table
Selected ==
    {The(green_rows)[j] : j \in 1..Len(The(green_rows))} \cap 0..(Len(The(self_df)) - 1)
\* the entries the dict d has under the key k
EntriesOf(d, k) == {i \in 1..Len(d) : d[i].key = k}
IsErrorResult(v) == DOMAIN v = {"error"}
\* every row index of the dict d has one entry
OneEntryEach(d) == \A k \in Keys(d) : Cardinality(EntriesOf(d, k)) = 1
\* the rows of the table whose crawl cannot succeed: no website, or no practice
\* name to build the artifact's file name from
DoomedRow(x) ==
    LET row == The(self_df)[x + 1]
    IN  ~Truthy(row.Website) \/ ~IsStr(row.Website) \/ ~IsStr(row.Practice)

\* C13: a crawl that returns an error result or raises in its worker is
\* recorded under its own row index as an error result, and every other crawl
\* as what it returned; an entry, once recorded for the batch or merged, is
\* never changed by what happens to another row; and when scrape_all_clinics
\* returns, the mapping has exactly one entry for every selected row index
\* inside the table and for nothing else, batches after a failed crawl included.
C13_FailureIsolated ==
    /\ [](/\ OneEntryEach(batch_results)
          /\ OneEntryEach(all_results)
          /\ bpc = "collect" =>
                \A k \in 1..Len(futures) :
                    futures[k].collected =>
                        LET v == DictGet(batch_results, futures[k].idx)
                        IN  /\ futures[k].st = "raised" =>
                                 v = [error |-> futures[k].outcome]
                            /\ futures[k].st = "returned" => v = futures[k].outcome
          /\ (bpc = "done" /\ Loaded) =>
                /\ Keys(breturned) = Selected
                /\ OneEntryEach(breturned)
                /\ \A x \in Selected :
                      DoomedRow(x) => IsErrorResult(DictGet(breturned, x)))
    /\ [][/\ IsPrefix(all_results, all_results')
          /\ (bpc = "collect" /\ bpc' = "collect") => IsPrefix(batch_results, batch_results')]_vars

\* batches of two over all four rows: the crawl of row 1 raised and that of row 2
\* had no website, rows 0 and 3 were crawled, and all four are in the mapping
C13_Witness ==
    /\ bpc = "done"
    /\ Loaded
    /\ batch_size = 2
    /\ Keys(breturned) = {0, 1, 2, 3}
    /\ DictGet(breturned, 1) = [error |-> <<"TypeError">>]
    /\ IsErrorResult(DictGet(breturned, 2))
    /\ ~IsErrorResult(DictGet(breturned, 0))
    /\ ~IsErrorResult(DictGet(breturned, 3))

\* every selected in-range row up to position n of green_rows has been merged
MergedUpTo(n) ==
    \A j \in 1..n :
        The(green_rows)[j] < Len(The(self_df)) => The(green_rows)[j] \in Keys(all_results)

\* C14: all_results changes only in a step taken when every crawl of the batch
\* has completed and been collected; while a batch is in the pool every earlier
\* batch is merged; the crawls of a batch advance only between its submission
\* and its merge; and the loop passes from one batch to the next only through
\* the pause, which is taken after the merge with no crawl running and lasts
\* between 3 and 5 seconds.
C14_BatchBarrier ==
    /\ [](/\ bpc = "collect" => MergedUpTo(bi)
          /\ bpc = "sleep" =>
                /\ Running = {}
                /\ Done = 1..Len(futures)
                /\ MergedUpTo(bi + batch_size))
    /\ [][/\ all_results' # all_results =>
                /\ bpc = "collect"
                /\ Done = 1..Len(futures)
                /\ \A k \in 1..Len(futures) : futures[k].collected
          /\ futures' # futures => bpc \in {"loop", "collect"}
          /\ (bi' # bi /\ bi' < Len(The(green_rows))) =>
                /\ bpc = "sleep"
                /\ sleep_time' >= 3
                /\ sleep_time' <= 5]_vars

\* the second batch is in the pool, after a pause, with a crawl running and the
\* two crawls of the first batch merged
C14_Witness ==
    /\ bpc = "collect"
    /\ bi = 2
    /\ sleep_time \in SleepTimes
    /\ Running # {}
    /\ Len(all_results) = 2

\* the objects and files the crawl of future k has read and written so far: the
\* session it sent a request through, the mapping file it appended a line to and
\* the artifact it wrote (the artifact's name ends with the crawl's row index)
Touched(k) ==
    (IF futures[k].idx \in session
     THEN {[object |-> "self.session", of |-> -1]} ELSE {})
    \cup (IF \E n \in 1..Len(bfiles.mapping) : bfiles.mapping[n].file.idx = futures[k].idx
          THEN {[object |-> "practice_mapping.txt", of |-> -1]} ELSE {})
    \cup {[object |-> "artifact", of |-> bfiles.artifacts[n].key.idx] :
            n \in {m \in 1..Len(bfiles.artifacts) :
                        bfiles.artifacts[m].key.idx = futures[k].idx}}

\* C15: no object or file has been read and written by two crawls of the same
\* batch.
C15_NoSharedState ==
    \A k1, k2 \in 1..Len(futures) :
        k1 # k2 => Touched(k1) \cap Touched(k2) = {}

(***************************************************************************)
(* Properties of what fetch_url returns.                                   *)
(***************************************************************************)
\* the kind of failure a fetch_url call for u ends in when the server answers
\* its GETs with script and the call issues gets of them
FailureKindOf(u, script, gets) ==
    IF ~is_valid_url(u) THEN "InvalidURL"
    ELSE IF script[gets] = 404 THEN "NotFound"
    ELSE "Unreachable"
\* the kind of failure the call of this state has ended in
FailureKind ==
    IF ~is_valid_url(url) THEN "InvalidURL"
    ELSE IF trace[SetMax(Gets)].status = 404 THEN "NotFound"
    ELSE "Unreachable"
\* the outcome of another fetch_url call
OtherCall(u, script) ==
    IF ~is_valid_url(u) THEN [success |-> FALSE, content |-> None, gets |-> 0]
    ELSE fetch_attempts(<<"response", 200>>, script, 0)

\* C16: the value a failed call returns tells the kind of the failure: no call
\* that fails in another way (InvalidURL, NotFound, Unreachable) returns the
\* same value.
C16_FailureKindsDistinct ==
    (fpc = "done" /\ ~result.success) =>
        \A u \in [scheme : BOOLEAN, netloc : BOOLEAN], script \in [1..max_retries -> Outcomes] :
            LET f == OtherCall(u, script)
            IN  (~f.success /\ FailureKindOf(u, script, f.gets) # FailureKind) =>
                    [success |-> f.success, content |-> f.content] # result



(***************************************************************************)
(* Properties of the validators.                                           *)
(***************************************************************************)
Called(fn) == vpc = "done" /\ vfn = fn

\* an address read as [Unit ]<digits>[letter](/ or \)<digits>[letter], a space
\* and the rest: whether it has that form, the building number and the rest
UnitForm(s) ==
    LET start == IF startswith(s, <<"U", "n", "i", "t", " ">>) THEN 6 ELSE 1
        unitDigits == RunEnd(s, start, Digits) + 1
        unitEnd == IF unitDigits <= Len(s) /\ s[unitDigits] \in Letters
                   THEN unitDigits + 1 ELSE unitDigits
        numDigits == RunEnd(s, unitEnd + 1, Digits) + 1
        numEnd == IF numDigits <= Len(s) /\ s[numDigits] \in Letters
                  THEN numDigits + 1 ELSE numDigits
        has == /\ unitDigits > start
               /\ unitEnd <= Len(s)
               /\ s[unitEnd] \in {"/", "\\"}
               /\ numDigits > unitEnd + 1
               /\ numEnd < Len(s)
               /\ s[numEnd] = " "
    IN  [has |-> has,
         number |-> IF has THEN SubSeq(s, unitEnd + 1, numEnd - 1) ELSE Empty,
         rest |-> IF has THEN SubSeq(s, numEnd + 1, Len(s)) ELSE Empty]

MinchintonUnit == <<"U", "n", "i", "t", " ", "2", "/", "4", "0", " ", "M", "i", "n", "c", "h", "i", "n", "t", "o", "n", " ", "S", "t", ",", " ", "C", "a", "l", "o", "u", "n", "d", "r", "a", " ", "Q", "L", "D", " ", "4", "5", "5", "1">>

\* C17: of an address that begins with a unit, a slash and a building number,
\* followed by a space and the rest, validate_address returns the building
\* number, one space and the rest (without the spaces around it), and of
\* "Unit 2/40 Minchinton St, Caloundra QLD 4551" it returns
\* (True, "40 Minchinton St, Caloundra QLD 4551").
C17_UnitStripped ==
    Called("validate_address") /\ IsStr(vin) =>
        /\ UnitForm(vin).has /\ strip(UnitForm(vin).rest) # Empty =>
               vout.value = UnitForm(vin).number \o <<" ">> \o strip(UnitForm(vin).rest)
        /\ vin = MinchintonUnit =>
               vout = [valid |-> TRUE, value |-> <<"4", "0", " ", "M", "i", "n", "c", "h", "i", "n", "t", "o", "n", " ", "S", "t", ",", " ", "C", "a", "l", "o", "u", "n", "d", "r", "a", " ", "Q", "L", "D", " ", "4", "5", "5", "1">>]

\* an address with a lettered unit, a backslash and a lettered building number
\* has been validated: it lost its unit although its street is not accepted
C17_Witness ==
    /\ Called("validate_address")
    /\ vin = <<"U", "n", "i", "t", " ", "3", "5", "B">> \o <<"\\">> \o <<"1", "2", "a", " ", " ", "S", "t", ",", " ", "K", "e", "w", " ", "V", "I", "C", " ", "3", "1", "0", "1", " ">>
    /\ UnitForm(vin).has
    /\ vout = [valid |-> FALSE, value |-> <<"1", "2", "a", " ", "S", "t", ",", " ", "K", "e", "w", " ", "V", "I", "C", " ", "3", "1", "0", "1">>]

\* the digits of a text, in their order
DigitsOf(s) == SelectSeq(s, LAMBDA c : c \in Digits)
\* the digits of a mobile number, the leading zero restored, or <<>>
MobileDigits(s) ==
    LET d == DigitsOf(s)
    IN  IF Len(d) = 10 /\ SubSeq(d, 1, 2) = <<"0", "4">> THEN d
        ELSE IF Len(d) = 9 /\ d[1] = "4" THEN <<"0">> \o d
        ELSE Empty
\* digits written in groups of the given sizes with one space between them
RECURSIVE Grouped(_, _)
Grouped(d, sizes) ==
    IF Len(sizes) = 1 THEN SubSeq(d, 1, sizes[1])
    ELSE SubSeq(d, 1, sizes[1]) \o <<" ">> \o Grouped(SubSeq(d, sizes[1] + 1, Len(d)), Tail(sizes))

\* C18: of every text with 10 digits that begin "04", and of every text with 9
\* digits that begin "4", validate_phone returns True and the ten digits (the
\* zero restored) with a space after the 4th and after the 7th; of
\* "0490193347" it returns "0490 193 347".
C18_MobileGrouped ==
    Called("validate_phone") /\ IsStr(vin) =>
        /\ MobileDigits(vin) # Empty =>
               vout = [valid |-> TRUE, value |-> Grouped(MobileDigits(vin), <<4, 3, 3>>)]
        /\ vin = <<"0", "4", "9", "0", "1", "9", "3", "3", "4", "7">> => vout.value = <<"0", "4", "9", "0", " ", "1", "9", "3", " ", "3", "4", "7">>

\* a mobile number written without its zero, with a "+" in front, has been
\* validated
C18_Witness ==
    /\ Called("validate_phone")
    /\ vin = <<"+", "4", "1", "2", "3", "4", "5", "6", "7", "8">>
    /\ vout = [valid |-> TRUE, value |-> <<"0", "4", "1", "2", " ", "3", "4", "5", " ", "6", "7", "8">>]

\* the digits of a text, a 9-digit mobile number given its zero back
RestoredDigits(s) ==
    LET d == DigitsOf(s)
    IN  IF Len(d) = 9 /\ d[1] = "4" THEN <<"0">> \o d ELSE d

\* C19: validate_phone returns True exactly when the text has 8 to 12 digits
\* (a dropped mobile zero restored), and then 8 digits come back as
\* "xxxx xxxx", 9 digits as "xxx xxx xxx", and 11 or 12 digits as the whole
\* digit string without grouping, whatever the leading digits are.
C19_PhoneFormatTable ==
    Called("validate_phone") /\ IsStr(vin) /\ vin # Empty =>
        LET d == RestoredDigits(vin)
        IN  /\ vout.valid = (Len(d) >= 8 /\ Len(d) <= 12)
            /\ Len(d) = 8 => vout.value = Grouped(d, <<4, 4>>)
            /\ Len(d) = 9 => vout.value = Grouped(d, <<3, 3, 3>>)
            /\ Len(d) \in {11, 12} => vout.value = d

\* C20: of a text that is an email address once trimmed and lower-cased,
\* validate_email returns True and the trimmed, lower-cased text; of any other
\* non-empty text it returns False and the text exactly as it was given.
C20_InvalidEmailUnmodified ==
    Called("validate_email") /\ IsStr(vin) /\ vin # Empty =>
        IF email_pattern(lower(strip(vin)))
        THEN vout = [valid |-> TRUE, value |-> lower(strip(vin))]
        ELSE vout = [valid |-> FALSE, value |-> vin]

Again(fn) == vpc = "again" /\ vfn = fn

\* C21: validate_psychologist_type, applied to the value it returned for an
\* input (valid, invalid, empty or no text at all), returns the same
\* (valid, value) pair as it returned for that input.
C21_TypeIdempotent ==
    Again("validate_psychologist_type") => vagain = vout

\* "Clinical Psychologist" has become "C", and "C" has been validated again
C21_Witness ==
    /\ Again("validate_psychologist_type")
    /\ vin = <<"C", "l", "i", "n", "i", "c", "a", "l", " ", "P", "s", "y", "c", "h", "o", "l", "o", "g", "i", "s", "t">>
    /\ vout = [valid |-> TRUE, value |-> <<"C">>]
    /\ vagain = vout

(***************************************************************************)
(* Properties of the subpages of a crawl.                                  *)
(***************************************************************************)
\* C22: in one crawl fetch_url is called at most once for a candidate subpage
\* URL, however often the URL occurs in the candidate list and whatever the
\* first call for it returned.
C22_NoSecondFetch ==
    \A k \in SubFetches : FetchesOf(ctrace[k].url) = {k}

\* the crawl returned a result without error field
ReturnedResult == cpc = "done" /\ "error" \notin DOMAIN creturned
\* the subpages fetched successfully in the crawl
Visited == {ctrace[k].url : k \in {j \in SubFetches : ctrace[j].success}}
\* the page sections of the result the crawl returned
ReturnedSections == creturned.doctor_pages_content \o creturned.other_pages_content

\* C23 as stated: the subpage list of a successful crawl result, and of the
\* artifact's header, holds exactly the subpages fetched successfully, which
\* are the URLs of the page sections.
C23_ListIsVisited ==
    ReturnedResult =>
        /\ Range(creturned.doctor_pages) = Visited
        /\ Range(creturned.doctor_pages) = Keys(ReturnedSections)
        /\ \A i \in 1..Len(cfiles.artifacts) :
              Range(cfiles.artifacts[i].value.doctor_pages) = Visited

\* C23 amended: the subpage list of a successful crawl result, and of the
\* artifact's header, is the list of candidates found on the main page, in the
\* order of their links and with their repetitions; the URL of every page
\* section is in it, and a URL in it has a page section exactly when one of the
\* fetches for it succeeded.
C23_ListIsCandidates ==
    ReturnedResult =>
        /\ creturned.doctor_pages = find_doctor_pages(cpage.anchors, website_url)
        /\ \A i \in 1..Len(cfiles.artifacts) :
              cfiles.artifacts[i].value.doctor_pages = creturned.doctor_pages
        /\ Keys(ReturnedSections) \subseteq Range(creturned.doctor_pages)
        /\ Keys(ReturnedSections) = Visited
        /\ \A u \in Range(creturned.doctor_pages) :
              u \in Keys(ReturnedSections) <=> \E k \in FetchesOf(u) : ctrace[k].success

\* a crawl has saved a result that lists two subpages, one fetched and one
\* given up
C23_Witness ==
    /\ ReturnedResult
    /\ Len(cfiles.artifacts) = 1
    /\ Cardinality(Range(creturned.doctor_pages)) = 2
    /\ Cardinality(Visited) = 1
    /\ \E u \in Range(cfiles.artifacts[1].value.doctor_pages) : u \notin Keys(ReturnedSections)

\* the pages fetched successfully in the crawl, in the order of their fetches:
\* the main page, then the subpages
FetchedInOrder ==
    LET good == SelectSeq(ctrace, LAMBDA e : e.op = "fetch" /\ e.success)
    IN  [i \in 1..Len(good) |-> good[i].url]

\* C24: the page sections of the file a crawl writes are in the order in which
\* the pages were fetched: the main page, then the subpages as the loop came to
\* them, whether a page was tagged DOCTOR or OTHER.
C24_DiscoveryOrder ==
    cpc = "done" =>
        \A i \in 1..Len(cfiles.artifacts) :
            LET sections == cfiles.artifacts[i].value.sections
            IN  [j \in 1..Len(sections) |-> sections[j].url] = FetchedInOrder

(***************************************************************************)
(* Properties of the backoff of fetch_url.                                 *)
(***************************************************************************)
\* the number of GETs among the first k entries of the trace
GetsUpTo(k) == Cardinality({j \in 1..k : trace[j].op = "GET"})

\* C25: in one call of fetch_url the pause after the k-th failed attempt lasts
\* 2 x k seconds, and every pause lies between two attempts: when the call has
\* returned, each pause in its trace is followed by a GET, so no pause is taken
\* after the last attempt.
C25_BackoffBetweenAttempts ==
    /\ \A k \in 1..Len(trace) :
          trace[k].op = "sleep" =>
              /\ k > 1 /\ trace[k - 1].op = "GET"
              /\ trace[k].seconds = 2 * GetsUpTo(k)
    /\ fpc = "done" =>
          \A k \in 1..Len(trace) :
              trace[k].op = "sleep" => k < Len(trace) /\ trace[k + 1].op = "GET"

(***************************************************************************)
(* Termination of scrape_all_clinics.                                      *)
(***************************************************************************)
\* scrape_all_clinics has returned, with an entry for every selected row inside
\* the table
ReturnedAll == bpc = "done" /\ (Loaded => Keys(breturned) = Selected)
\* the crawl of row x was given up at its main page
GivenUp(x) ==
    /\ x \in Keys(breturned)
    /\ IsErrorResult(DictGet(breturned, x))
    /\ DictGet(breturned, x).error[1] = "Failed to fetch"

\* C26: when every GET comes back, scrape_all_clinics returns in the end, and
\* when it does every selected row inside the table has its entry, a result or
\* an error; a site that never answers well, a row without website and a crawl
\* that raises hold up neither their batch nor the batches after it.
C26_BatchTerminates == <>ReturnedAll

\* with batches of one row, the site of row 0 was given up, and rows 1, 2 and 3
\* after it have their entries, row 3 a result
C26_Witness ==
    /\ ReturnedAll
    /\ Loaded
    /\ batch_size = 1
    /\ Selected = {0, 1, 2, 3}
    /\ GivenUp(0)
    /\ ~IsErrorResult(DictGet(breturned, 3))

(***************************************************************************)
(* Properties of the row expansion of format_data_for_excel.               *)
(***************************************************************************)
\* the rows of the input table that represent the practice p
RowsOf(p) == {i \in 1..Len(df) : df[i]["Practice"] = p}

\* C27: new rows are made for a practice only when its candidate lists more
\* staff than the table has rows for the practice: a practice that already has
\* as many rows as the candidate has staff gets no new row; and no row of the
\* table is ever deleted.
C27_ExpandOnlyWhenMore ==
    /\ pc = "done" =>
          \A p \in DOMAIN extracted_data :
              LET a == extracted_data[p]
              IN  (a.kind = "record" /\ Cardinality(RowsOf(p)) >= Len(a.psychologists)) =>
                      \A i \in RowsOf(p) : ClonesOf(i) = <<>>
    /\ pc \in {"rows", "done"} =>
          /\ Len(updated_df) = Len(df)
          /\ \A i \in 1..Len(df) : updated_df[i]["Practice"] = df[i]["Practice"]

(***************************************************************************)
(* Properties of the same-domain test.                                     *)
(***************************************************************************)
\* the host of a URL without a leading "www."
HostOf(u) ==
    LET netloc == urlparse(u).netloc
    IN  IF startswith(netloc, <<"w", "w", "w", ".">>) THEN SubSeq(netloc, 5, Len(netloc)) ELSE netloc

\* C28: every subpage a crawl lists as candidate, and every subpage it fetches,
\* has the host of the main page, a leading "www." of either host left aside.
C28_SubpagesSameDomain ==
    cpc \in {"pages", "done", "raised"} =>
        /\ \A j \in 1..Len(doctor_pages) : HostOf(doctor_pages[j]) = HostOf(website_url)
        /\ \A k \in SubFetches : HostOf(ctrace[k].url) = HostOf(website_url)

(***************************************************************************)
(* Properties of the rebuild of validate_address.                          *)
(***************************************************************************)
\* an address read as "<number> <street words> <suburb> <STATE> <postcode>"
\* without any comma: whether it has that form, and its parts
CommaLess(s) ==
    LET spaces == {p \in 1..Len(s) : s[p] = " "}
        p1 == SetMax(spaces)
        p2 == SetMax(spaces \ {p1})
        p3 == SetMax(spaces \ {p1, p2})
        has == /\ Cardinality(spaces) >= 4
               /\ \A p \in 1..Len(s) : s[p] # ","
               /\ AllIn(s, 1, SetMin(spaces) - 1, Digits)
               /\ SetMin(spaces) > 1
               /\ Len(s) - p1 = 4
               /\ AllIn(s, p1 + 1, Len(s), Digits)
               /\ SubSeq(s, p2 + 1, p1 - 1) \in Range(au_states)
               /\ p3 + 1 < p2
               /\ AllIn(s, p3 + 1, p2 - 1, Letters)
    IN  [has |-> has,
         street |-> IF has THEN SubSeq(s, 1, p3 - 1) ELSE Empty,
         tail |-> IF has THEN SubSeq(s, p3 + 1, Len(s)) ELSE Empty]

\* C29: of an address "<number> <street words> <suburb> <STATE> <postcode>"
\* that lacks only the comma before the suburb, validate_address returns True
\* and the address with that comma attached; of an address in which no state or
\* no postcode can be found it returns False and the address without the spaces
\* around it.
C29_RebuildAddsComma ==
    Called("validate_address") /\ IsStr(vin) /\ vin # Empty =>
        /\ CommaLess(vin).has =>
              vout = [valid |-> TRUE,
                      value |-> CommaLess(vin).street \o <<",", " ">> \o CommaLess(vin).tail]
        /\ (vin \in PlainAddresses /\ (postcode_match(vin) = 0 \/ state_match(vin) = 0)) =>
              vout = [valid |-> FALSE, value |-> strip(vin)]

(***************************************************************************)
(* Properties of validate_phone on its own output.                         *)
(***************************************************************************)
\* a table row that holds the phone cell only
PhoneRow(phone) == [c \in {"Phone"} |-> phone]

\* C30: of the formatted number it returned for an input it accepted,
\* validate_phone returns True and the same formatted number; and the phone
\* pass of format_data_for_excel, run on a row it has formatted, leaves the
\* row as it is.
C30_PhoneIdempotent ==
    Again("validate_phone") =>
        /\ vout.valid => vagain = vout
        /\ FormatPhone(FormatPhone(PhoneRow(vin))) = FormatPhone(PhoneRow(vin))

\* a mobile number written without its zero was formatted, and the formatted
\* number was validated again
C30_Witness ==
    /\ Again("validate_phone")
    /\ vin = <<"+", "4", "1", "2", "3", "4", "5", "6", "7", "8">>
    /\ vout = [valid |-> TRUE, value |-> <<"0", "4", "1", "2", " ", "3", "4", "5", " ", "6", "7", "8">>]
    /\ vagain = vout
    /\ FormatPhone(PhoneRow(vin)) = PhoneRow(vout.value)

====
